---- MODULE Spec2Model ----
(***************************************************************************)
(* State-machine model of the simulation core of consumer_metamodel:      *)
(* ConsumerChoiceModel (src/src/model.rs) with its Environment            *)
(* (src/src/environment.rs), Transformer (src/src/information.rs),        *)
(* ConsumerAgent (src/src/agent.rs) and EventBus/ModelValidator           *)
(* (src/src/utils.rs).                                                    *)
(*                                                                         *)
(* SimulationTime is f64 in the source.  Times are modelled on the grid   *)
(* of small integers, where f64 addition and comparison are exact.        *)
(* Reliabilities and attribute values are modelled in hundredths          *)
(* (100 stands for 1.0).                                                  *)
(***************************************************************************)
EXTENDS Integers, Sequences, FiniteSets, TLC

\* ------------------------------------------------------------------ bounds
MaxTime == 2
MaxTimeStep == 1
MaxBackward == 1
MaxHistory == 1
MaxLog == 4
RunMaxTime == 10
RunMaxTimeStep == 3
MaxFilters == 2
MaxDistorters == 2
MaxRaw == 2
MaxExpiry == 1
MaxProcesses == 2
MaxChoices == 2
MaxCapacity == 2
MaxEmits == 4
FloatBits == 3
ClockMaxTime == 20
MaxThreadEmits == 2

\* ------------------------------------------------------- program constants
DefaultMaxEvents == 10000

\* ------------------------------------------------------------ input domains
AgentIds == {"a1"}
RunAgentIds == {"a1", "a2"}
AssetIds == {"p1"}
TimeSteps == -1 .. MaxTimeStep
MaxTimes == 0 .. MaxTime
RunTimeSteps == 0 .. RunMaxTimeStep
RunMaxTimes == -1 .. RunMaxTime
\* Option<T>: None and Some(x)
None == << >>
Some(x) == << x >>
\* no collaborator fails
NoFailure == "none"

VARIABLES
    configuration,            \* ModelConfiguration (immutable after new)
    state,                    \* ModelState
    current_time,             \* the model's clock
    agents,                   \* HashMap<AgentId, ConsumerAgent>
    environment,              \* Environment
    information_transformer,  \* Transformer
    event_bus,                \* EventBus
    statistics,               \* ModelStatistics
    last_call,                \* the most recent call and what it returned
    run_pc,                   \* position of an in-progress run()
    ticks                     \* ticks executed since the last start()

vars == <<configuration, state, current_time, agents, environment,
          information_transformer, event_bus, statistics, last_call, run_pc, ticks>>

\* ------------------------------------------------------------ ModelState
ModelState == {"Initialized", "Running", "Paused", "Completed", "Error"}

\* ---------------------------------------------------------- SimulationTime
\* SimulationTime is f64: a sum is rounded to the nearest value with a
\* significand of the format's width, ties to the even significand.  The
\* model keeps FloatBits bits of significand instead of 53, on non-negative
\* integers.
RECURSIVE Pow2(_)
Pow2(n) == IF n = 0 THEN 1 ELSE 2 * Pow2(n - 1)

\* the spacing of the representable values around x
RECURSIVE Ulp(_)
Ulp(x) == IF x < Pow2(FloatBits) THEN 1 ELSE 2 * Ulp(x \div 2)

RoundToFloat(x) ==
    LET q == Ulp(x)
        lo == (x \div q) * q
        r == x - lo
    IN  IF 2 * r < q THEN lo
        ELSE IF 2 * r > q THEN lo + q
        ELSE IF (lo \div q) % 2 = 0 THEN lo ELSE lo + q

\* a + b in SimulationTime
FloatAdd(a, b) == RoundToFloat(a + b)

\* ------------------------------------------------------- ModelStatistics
RECURSIVE Gcd(_, _)
Gcd(a, b) == IF b = 0 THEN a ELSE Gcd(b, a % b)

\* the f64 quotient n / d, kept as a reduced fraction
Quotient(n, d) == [num |-> n \div Gcd(n, d), den |-> d \div Gcd(n, d)]

ZeroQuotient == [num |-> 0, den |-> 1]

NewStatistics ==
    [total_agents |-> 0,
     total_choices_made |-> 0,
     average_choices_per_agent |-> ZeroQuotient,
     simulation_duration |-> 0,
     events_processed |-> 0,
     validation_errors |-> 0]

RECURSIVE SumHistory(_, _)
SumHistory(ags, ids) ==
    IF ids = {} THEN 0
    ELSE LET a == CHOOSE x \in ids : TRUE
         IN Len(ags[a].choice_history) + SumHistory(ags, ids \ {a})

TotalChoices(ags) == SumHistory(ags, DOMAIN ags)

\* mutant: the choices counted are the agents
update_statistics_counting_agents(stats, ags, time) ==
    LET n == Cardinality(DOMAIN ags)
    IN [stats EXCEPT
            !.total_agents = n,
            !.simulation_duration = time,
            !.total_choices_made = n,
            !.average_choices_per_agent = IF n > 0 THEN Quotient(n, n) ELSE @]

update_statistics(stats, ags, time) ==
    LET n == Cardinality(DOMAIN ags)
        total == TotalChoices(ags)
    IN [stats EXCEPT
            !.total_agents = n,
            !.simulation_duration = time,
            !.total_choices_made = total,
            !.average_choices_per_agent = IF n > 0 THEN Quotient(total, n) ELSE @]

\* ----------------------------------------------------------------- EventBus
NewEventBus == [events |-> <<>>, max_events |-> DefaultMaxEvents]

ModelEvent(type, timestamp, agent_id) ==
    [event_type |-> type, timestamp |-> timestamp, agent_id |-> agent_id]

\* EventBus::with_max_events
with_max_events(max_events) == [events |-> <<>>, max_events |-> max_events]

\* mutant: a full log refuses the new event instead of evicting the oldest
emit_keeping_oldest(bus, event) ==
    LET pushed == Append(bus.events, event)
    IN [bus EXCEPT !.events = IF Len(pushed) > bus.max_events THEN bus.events ELSE pushed]

emit(bus, event) ==
    LET pushed == Append(bus.events, event)
    IN [bus EXCEPT !.events = IF Len(pushed) > bus.max_events THEN Tail(pushed) ELSE pushed]

clear_events(bus) == [bus EXCEPT !.events = <<>>]

\* mutant: the event_logging_enabled flag is ignored
EmitAlways(cfg, bus, event) == emit(bus, event)

\* mutant: an enabled log records every event twice
EmitTwiceIfLogging(cfg, bus, event) ==
    IF cfg.event_logging_enabled THEN emit(emit(bus, event), event) ELSE bus

\* the model emits only when event logging is enabled
EmitIfLogging(cfg, bus, event) ==
    IF cfg.event_logging_enabled THEN emit(bus, event) ELSE bus

\* ------------------------------------------------------------ ConsumerAgent
ChoiceRecord(t) == [choice |-> "c", time |-> t]

\* an agent as built by ConsumerAgent::new followed by n recorded choices
NewAgent(psych, n) ==
    [attributes |-> [psychological |-> psych],
     choice_history |-> [i \in 1 .. n |-> ChoiceRecord(i)],
     last_choice_time |-> IF n = 0 THEN None ELSE Some(n)]

\* mutant: clear_history forgets last_choice_time
clear_history_only_records(agent) == [agent EXCEPT !.choice_history = <<>>]

clear_history(agent) ==
    [agent EXCEPT !.choice_history = <<>>, !.last_choice_time = None]

\* ConsumerAgent::new
ConsumerAgent_new(psych) == NewAgent(psych, 0)

\* the record process_trigger pushes
Record(choice, time, trigger) == [choice |-> choice, time |-> time, trigger |-> trigger]

\* what the ChoiceModule collaborator does in one process_trigger call:
\* should_make_choice false, make_choice Err, make_choice Ok(None),
\* evaluate_choice Err, or a choice made and evaluated
ChoiceOutcomes(choices) ==
    {[kind |-> k, choice |-> None] :
        k \in {"declined", "make_choice_failed", "no_choice"}}
    \cup {[kind |-> k, choice |-> Some(c)] :
        k \in {"evaluate_choice_failed", "chosen"}, c \in choices}

\* mutant: last_choice_time is stamped whenever make_choice succeeded
process_trigger_stamping_always(agent, trigger, outcome, time) ==
    CASE outcome.kind = "declined" ->
            [ok |-> TRUE, chosen |-> None, agent |-> agent]
      [] outcome.kind = "no_choice" ->
            [ok |-> TRUE, chosen |-> None,
             agent |-> [agent EXCEPT !.last_choice_time = Some(time)]]
      [] outcome.kind \in {"make_choice_failed", "evaluate_choice_failed"} ->
            [ok |-> FALSE, chosen |-> None, agent |-> agent]
      [] OTHER ->
            [ok |-> TRUE, chosen |-> outcome.choice,
             agent |-> [agent EXCEPT
                  !.choice_history = Append(@, Record(outcome.choice[1], time, trigger)),
                  !.last_choice_time = Some(time)]]

\* process_trigger
process_trigger(agent, trigger, outcome, time) ==
    CASE outcome.kind \in {"declined", "no_choice"} ->
            [ok |-> TRUE, chosen |-> None, agent |-> agent]
      [] outcome.kind \in {"make_choice_failed", "evaluate_choice_failed"} ->
            [ok |-> FALSE, chosen |-> None, agent |-> agent]
      [] OTHER ->
            [ok |-> TRUE, chosen |-> outcome.choice,
             agent |-> [agent EXCEPT
                  !.choice_history = Append(@, Record(outcome.choice[1], time, trigger)),
                  !.last_choice_time = Some(time)]]

\* ----------------------------------------------------------- ModelValidator
\* ValidationRules::new and the two with_required_... builders
ValidationRules(psychological, socioeconomic) ==
    [required_psychological_attributes |-> psychological,
     required_socioeconomic_attributes |-> socioeconomic]

\* mutant: the bounds 0.0 and 1.0 are themselves rejected
validate_attribute_maps_exclusive(rules, attributes) ==
    LET psychological == attributes.psychological
        socioeconomic == attributes.socioeconomic
    IN  IF \E r \in rules.required_psychological_attributes :
                r \notin DOMAIN psychological
        THEN "MissingPsychological"
        ELSE IF \E r \in rules.required_socioeconomic_attributes :
                r \notin DOMAIN socioeconomic
        THEN "MissingSocioeconomic"
        ELSE IF \E name \in DOMAIN psychological :
                psychological[name] <= 0 \/ psychological[name] >= 100
        THEN "PsychologicalRange"
        ELSE IF \E name \in DOMAIN socioeconomic : socioeconomic[name] < 0
        THEN "SocioeconomicNegative"
        ELSE "Ok"

\* validate_agent_attributes of a validator built with_rules, on the two
\* attribute maps of an agent (values in hundredths): "Ok", or the check
\* that returned the error
validate_attribute_maps(rules, attributes) ==
    LET psychological == attributes.psychological
        socioeconomic == attributes.socioeconomic
    IN  IF \E r \in rules.required_psychological_attributes :
                r \notin DOMAIN psychological
        THEN "MissingPsychological"
        ELSE IF \E r \in rules.required_socioeconomic_attributes :
                r \notin DOMAIN socioeconomic
        THEN "MissingSocioeconomic"
        ELSE IF \E name \in DOMAIN psychological :
                psychological[name] < 0 \/ psychological[name] > 100
        THEN "PsychologicalRange"
        ELSE IF \E name \in DOMAIN socioeconomic : socioeconomic[name] < 0
        THEN "SocioeconomicNegative"
        ELSE "Ok"

\* the model's validator (default rules) on an agent with one psychological
\* attribute
validate_agent_attributes(attributes) ==
    ~ (attributes.psychological < 0 \/ attributes.psychological > 100)

\* -------------------------------------------------------------- Environment
\* ExogenousProcess collaborators, in registration order; a process is active
\* from its start time on and reports one change per invocation
ExogenousProcesses ==
    << [name |-> "market", active_from |-> 1],
       [name |-> "policy", active_from |-> 2] >>

is_active(process, time) == time >= process.active_from

update_environment(process, time) ==
    << [change_type |-> process.name, description |-> process.name] >>

\* Environment::new
EmptyEnvironment ==
    [physical_assets |-> << >>, knowledge_assets |-> << >>,
     exogenous_processes |-> << >>, current_time |-> 0]

\* mutant: a duplicate ID overwrites the stored asset
add_physical_asset_overwriting(env, asset_id) ==
    [ok |-> asset_id \notin DOMAIN env.physical_assets,
     env |-> [env EXCEPT !.physical_assets =
                 (asset_id :> 0) @@ [a \in DOMAIN @ \ {asset_id} |-> @[a]]]]

\* add_physical_asset: an asset is modelled by the time of its last update_state
add_physical_asset(env, asset_id) ==
    IF asset_id \in DOMAIN env.physical_assets
    THEN [ok |-> FALSE, env |-> env]
    ELSE [ok |-> TRUE,
          env |-> [env EXCEPT !.physical_assets = (asset_id :> 0) @@ @]]

\* add_knowledge_asset: an asset is modelled by its content
add_knowledge_asset(env, asset) ==
    IF asset.asset_id \in DOMAIN env.knowledge_assets
    THEN [ok |-> FALSE, env |-> env]
    ELSE [ok |-> TRUE,
          env |-> [env EXCEPT !.knowledge_assets =
                      (asset.asset_id :> asset.content) @@ @]]

add_exogenous_process(env, process) ==
    [env EXCEPT !.exogenous_processes = Append(@, process)]

NewEnvironment ==
    [physical_assets |-> [a \in AssetIds |-> 0],
     knowledge_assets |-> << >>,
     exogenous_processes |-> ExogenousProcesses,
     current_time |-> 0]

\* mutant: inactive processes are invoked too
ChangesOfAllUpTo(processes, n, time) ==
    [i \in 1 .. n |-> update_environment(processes[i], time)[1]]

\* changes of the active processes among the first n, in registration order
RECURSIVE ChangesUpTo(_, _, _)
ChangesUpTo(processes, n, time) ==
    IF n = 0 THEN <<>>
    ELSE ChangesUpTo(processes, n - 1, time)
         \o (IF is_active(processes[n], time)
             THEN update_environment(processes[n], time) ELSE <<>>)

\* the points at which a collaborator can fail during update_to_time: the
\* update_state of an asset, or the invocation of an active process
EnvFailPoints(env, new_time) ==
    DOMAIN env.physical_assets \cup {env.exogenous_processes[i].name :
                      i \in {j \in 1 .. Len(env.exogenous_processes) :
                                 is_active(env.exogenous_processes[j], new_time)}}

\* mutant: a failed update restores the assets it had already updated
update_to_time_rolling_back(env, new_time, failing, done) ==
    IF failing # NoFailure
    THEN [ok |-> FALSE, changes |-> <<>>, env |-> env]
    ELSE [ok |-> TRUE,
          changes |-> ChangesUpTo(env.exogenous_processes,
                                  Len(env.exogenous_processes), new_time),
          env |-> [env EXCEPT !.physical_assets = [a \in DOMAIN @ |-> new_time],
                              !.current_time = new_time]]

\* update_to_time; failing = NoFailure, or the asset / process that fails;
\* done = the assets the map iteration visited before a failing asset
update_to_time(env, new_time, failing, done) ==
    IF failing \in DOMAIN env.physical_assets
    THEN [ok |-> FALSE, changes |-> <<>>,
          env |-> [env EXCEPT !.physical_assets =
                      [a \in DOMAIN @ |-> IF a \in done THEN new_time ELSE @[a]]]]
    ELSE LET updated == [env EXCEPT !.physical_assets = [a \in DOMAIN @ |-> new_time]]
         IN IF failing # NoFailure
            THEN [ok |-> FALSE, changes |-> <<>>, env |-> updated]
            ELSE [ok |-> TRUE,
                  changes |-> ChangesUpTo(env.exogenous_processes,
                                          Len(env.exogenous_processes), new_time),
                  env |-> [updated EXCEPT !.current_time = new_time]]

\* one call update_to_time makes on a collaborator, or its final assignment
EnvironmentStep(kind, target, result) ==
    [kind |-> kind, target |-> target, result |-> result]

\* the update_environment calls on the first n processes, the one named
\* failing returning the error
RECURSIVE ProcessCallsUpTo(_, _, _, _)
ProcessCallsUpTo(processes, n, time, failing) ==
    IF n = 0 THEN <<>>
    ELSE ProcessCallsUpTo(processes, n - 1, time, failing)
         \o (IF is_active(processes[n], time)
             THEN << EnvironmentStep("update_environment", processes[n].name,
                         IF processes[n].name = failing THEN "Err" ELSE "Ok") >>
             ELSE <<>>)

\* the orders in which the iteration of a map can visit the keys of ids
VisitOrders(ids) ==
    {order \in [1 .. Cardinality(ids) -> ids] : \A a \in ids : \E i \in DOMAIN order : order[i] = a}

\* update_to_time with the calls it makes, the asset map being visited in
\* the given order
update_to_time_traced(env, new_time, failing, order) ==
    LET assets == DOMAIN env.physical_assets
        processes == env.exogenous_processes
        visited == IF failing \in assets
                   THEN CHOOSE i \in DOMAIN order : order[i] = failing
                   ELSE Len(order)
        reached == IF failing \in assets THEN 0
                   ELSE IF failing = NoFailure THEN Len(processes)
                   ELSE CHOOSE i \in DOMAIN processes : processes[i].name = failing
        r == update_to_time(env, new_time, failing, {order[i] : i \in 1 .. visited - 1})
    IN [ok |-> r.ok, changes |-> r.changes, env |-> r.env,
        calls |-> [i \in 1 .. visited |->
                      EnvironmentStep("update_state", order[i],
                                      IF order[i] = failing THEN "Err" ELSE "Ok")]
                  \o ProcessCallsUpTo(processes, reached, new_time, failing)
                  \o (IF r.ok
                      THEN << EnvironmentStep("set_current_time", "environment", "Ok") >>
                      ELSE <<>>)]

\* -------------------------------------------------------------- Transformer
Information(content, source, timestamp, reliability, topic) ==
    [content |-> content, source |-> source, timestamp |-> timestamp,
     reliability |-> reliability, topic |-> topic]

\* ReliabilityFilter::filter_information
filter_information(filter, information) ==
    SelectSeq(information, LAMBDA info : info.reliability >= filter.min_reliability)

\* ReliabilityFilter::passes_filter
passes_filter(filter, info) == info.reliability >= filter.min_reliability

Clamp(x, lo, hi) == IF x < lo THEN lo ELSE IF x > hi THEN hi ELSE x

\* ConfirmationBiasDistorter::distort_information with the default
\* DistortionContext (confirmation_bias_strength = 0.5)
distort_information(distorter, information) ==
    [information EXCEPT !.reliability =
        Clamp(@ + (50 * distorter.bias_strength) \div 100, 0, 100)]

\* mutant: every filter is handed the raw list and only the last output is kept
ApplyLastFilterOnly(filters, n, information) ==
    IF n = 0 THEN information ELSE filter_information(filters[n], information)

RECURSIVE ApplyFilters(_, _, _)
ApplyFilters(filters, n, information) ==
    IF n = 0 THEN information
    ELSE filter_information(filters[n], ApplyFilters(filters, n - 1, information))

\* mutant: only the last distorter is applied to an item
ApplyLastDistorterOnly(distorters, n, info) ==
    IF n = 0 THEN info ELSE distort_information(distorters[n], info)

RECURSIVE ApplyDistorters(_, _, _)
ApplyDistorters(distorters, n, info) ==
    IF n = 0 THEN info
    ELSE distort_information(distorters[n], ApplyDistorters(distorters, n - 1, info))

Transformer_new(cache_expiry_time) ==
    [filters |-> << >>,
     distorters |-> << >>,
     information_cache |-> << >>,
     cache_expiry_time |-> cache_expiry_time]

add_filter(tr, filter) == [tr EXCEPT !.filters = Append(@, filter)]

add_distorter(tr, distorter) == [tr EXCEPT !.distorters = Append(@, distorter)]

\* the transformer handed to ConsumerChoiceModel::new: one filter, one distorter
ModelTransformer(cache_expiry_time) ==
    add_distorter(add_filter(Transformer_new(cache_expiry_time),
                             [min_reliability |-> 50]),
                  [bias_strength |-> 0 - 40])

NewTransformer == ModelTransformer(100)

\* a call can fail only inside a filter or a distorter it invokes
CanFail(tr, raw) ==
    \/ Len(tr.filters) > 0
    \/ /\ Len(tr.distorters) > 0
       /\ Len(ApplyFilters(tr.filters, Len(tr.filters), raw)) > 0

\* mutant: an entry already cached for the agent is kept
process_information_keeping_entry(tr, agent_id, raw, fails) ==
    IF fails
    THEN [ok |-> FALSE, info |-> <<>>, transformer |-> tr]
    ELSE LET filtered == ApplyFilters(tr.filters, Len(tr.filters), raw)
             distorted == [i \in 1 .. Len(filtered) |->
                              ApplyDistorters(tr.distorters, Len(tr.distorters), filtered[i])]
         IN [ok |-> TRUE, info |-> distorted,
             transformer |-> [tr EXCEPT !.information_cache = @ @@ (agent_id :> distorted)]]

\* mutant: a failed call caches the raw list
process_information_caching_on_error(tr, agent_id, raw, fails) ==
    LET filtered == ApplyFilters(tr.filters, Len(tr.filters), raw)
        distorted == [i \in 1 .. Len(filtered) |->
                         ApplyDistorters(tr.distorters, Len(tr.distorters), filtered[i])]
    IN IF fails
       THEN [ok |-> FALSE, info |-> <<>>,
             transformer |-> [tr EXCEPT !.information_cache = (agent_id :> raw) @@ @]]
       ELSE [ok |-> TRUE, info |-> distorted,
             transformer |-> [tr EXCEPT !.information_cache = (agent_id :> distorted) @@ @]]

process_information_for_agent(tr, agent_id, raw, fails) ==
    IF fails
    THEN [ok |-> FALSE, info |-> <<>>, transformer |-> tr]
    ELSE LET filtered == ApplyFilters(tr.filters, Len(tr.filters), raw)
             distorted == [i \in 1 .. Len(filtered) |->
                              ApplyDistorters(tr.distorters, Len(tr.distorters), filtered[i])]
         IN [ok |-> TRUE, info |-> distorted,
             transformer |-> [tr EXCEPT !.information_cache = (agent_id :> distorted) @@ @]]

get_cached_information(tr, agent_id) ==
    IF agent_id \in DOMAIN tr.information_cache
    THEN Some(tr.information_cache[agent_id])
    ELSE None

\* mutant: the cache is cleared from the threshold on
clear_expired_cache_at_threshold(tr, time) ==
    IF time >= tr.cache_expiry_time THEN [tr EXCEPT !.information_cache = << >>] ELSE tr

clear_expired_cache(tr, time) ==
    IF time > tr.cache_expiry_time THEN [tr EXCEPT !.information_cache = << >>] ELSE tr

\* one invocation of a filter (on a list) or of a distorter (on one item)
Invocation(kind, index, input) == [kind |-> kind, index |-> index, input |-> input]

\* the invocations of the filter loop, in the order the loop makes them
FilterInvocations(tr, raw) ==
    [i \in 1 .. Len(tr.filters) |->
        Invocation("filter", i, ApplyFilters(tr.filters, i - 1, raw))]

\* the invocations of the distorter loops: item by item, and for each item
\* distorter by distorter
DistorterInvocations(tr, raw) ==
    LET filtered == ApplyFilters(tr.filters, Len(tr.filters), raw)
        nd == Len(tr.distorters)
    IN [p \in 1 .. Len(filtered) * nd |->
           LET k == ((p - 1) \div nd) + 1
               j == ((p - 1) % nd) + 1
           IN Invocation("distorter", j,
                         << ApplyDistorters(tr.distorters, j - 1, filtered[k]) >>)]

Invocations(tr, raw) == FilterInvocations(tr, raw) \o DistorterInvocations(tr, raw)

\* process_information_for_agent with the invocations it makes; fail_at = 0,
\* or the position of the invocation that returns an error
process_information_traced(tr, agent_id, raw, fail_at) ==
    LET all == Invocations(tr, raw)
        made == IF fail_at = 0 THEN Len(all) ELSE fail_at
        r == process_information_for_agent(tr, agent_id, raw, fail_at # 0)
    IN [ok |-> r.ok, info |-> r.info, transformer |-> r.transformer,
        calls |-> [p \in 1 .. made |->
                      [kind |-> all[p].kind, index |-> all[p].index,
                       input |-> all[p].input,
                       result |-> IF p = fail_at THEN "Err" ELSE "Ok"]]]

\* the transformer after successful calls for every agent of ids
RECURSIVE ProcessAgents(_, _, _)
ProcessAgents(tr, ids, raw) ==
    IF ids = {} THEN tr
    ELSE LET a == CHOOSE x \in ids : TRUE
         IN ProcessAgents(process_information_for_agent(tr, a, raw, FALSE).transformer,
                          ids \ {a}, raw)

\* ------------------------------------------------------ ConsumerChoiceModel
Configurations(steps, maxes, flags) ==
    [time_step : steps, max_simulation_time : maxes,
     validation_enabled : flags, event_logging_enabled : flags]

Call(op, result, caller, processed, env_called) ==
    [op |-> op, result |-> result, pre_state |-> state, caller |-> caller,
     processed |-> processed, env_called |-> env_called]

Returned(op, result, caller) == Call(op, result, caller, {}, FALSE)

\* room left in the modelled part of the event log
LogRoom == ~ configuration.event_logging_enabled \/ Len(event_bus.events) < MaxLog

\* the lowest time the model follows a clock that runs backwards to
TimeInBounds(t) == t >= 0 - MaxBackward

ModelInit(configs) ==
    /\ configuration \in configs
    /\ state = "Initialized"
    /\ current_time = 0
    /\ agents = << >>
    /\ environment = NewEnvironment
    /\ information_transformer = NewTransformer
    /\ event_bus = NewEventBus
    /\ statistics = NewStatistics
    /\ last_call = [op |-> "new", result |-> "Ok", pre_state |-> "Initialized",
                    caller |-> "user", processed |-> {}, env_called |-> FALSE]
    /\ run_pc = "idle"
    /\ ticks = 0

Init == ModelInit(Configurations(TimeSteps, MaxTimes, BOOLEAN))

collaborators == <<environment, information_transformer>>

\* mutant: add_agent forgets the duplicate-id check
AddAgentFailsNoDuplicateCheck(agent_id, agent) ==
    \/ state # "Initialized"
    \/ /\ configuration.validation_enabled
       /\ ~ validate_agent_attributes(agent.attributes)

\* add_agent returns an error, in the order of the code's checks
AddAgentFails(agent_id, agent) ==
    \/ state # "Initialized"
    \/ agent_id \in DOMAIN agents
    \/ /\ configuration.validation_enabled
       /\ ~ validate_agent_attributes(agent.attributes)

add_agent(agent_id, agent) ==
    /\ run_pc = "idle"
    /\ IF AddAgentFails(agent_id, agent)
       THEN /\ last_call' = Returned("add_agent", "Err", "user")
            /\ UNCHANGED <<agents, event_bus>>
       ELSE /\ LogRoom
            /\ agents' = (agent_id :> agent) @@ agents
            /\ event_bus' = EmitIfLogging(configuration, event_bus,
                                ModelEvent("AgentAdded", current_time, Some(agent_id)))
            /\ last_call' = Returned("add_agent", "Ok", "user")
    /\ UNCHANGED <<configuration, state, current_time, collaborators, statistics,
                   run_pc, ticks>>

\* agents offered to add_agent: valid ones with 0 .. MaxHistory recorded choices
\* and one whose psychological attribute (1.5) does not validate
AgentInputs == {NewAgent(100, n) : n \in 0 .. MaxHistory} \cup {NewAgent(150, 0)}

AddAgentFrom(ids) ==
    \E agent_id \in ids, agent \in AgentInputs : add_agent(agent_id, agent)

AddAgent == AddAgentFrom(AgentIds)

\* mutant: remove_agent of an absent id succeeds
RemoveAgentFailsOnlyRunning(agent_id) == state = "Running"

RemoveAgentFails(agent_id) ==
    \/ state = "Running"
    \/ agent_id \notin DOMAIN agents

remove_agent(agent_id) ==
    /\ run_pc = "idle"
    /\ IF RemoveAgentFails(agent_id)
       THEN /\ last_call' = Returned("remove_agent", "Err", "user")
            /\ UNCHANGED <<agents, event_bus>>
       ELSE /\ LogRoom
            /\ agents' = [a \in DOMAIN agents \ {agent_id} |-> agents[a]]
            /\ event_bus' = EmitIfLogging(configuration, event_bus,
                                ModelEvent("AgentRemoved", current_time, Some(agent_id)))
            /\ last_call' = Returned("remove_agent", "Ok", "user")
    /\ UNCHANGED <<configuration, state, current_time, collaborators, statistics,
                   run_pc, ticks>>

RemoveAgentFrom(ids) == \E agent_id \in ids : remove_agent(agent_id)

RemoveAgent == RemoveAgentFrom(AgentIds)

\* mutant: start() forgets the state check
StartFailsOnlyEmpty == DOMAIN agents = {}

\* start() fails outside Initialized and with no agents
StartFails == state # "Initialized" \/ DOMAIN agents = {}

start(caller) ==
    /\ IF StartFails
       THEN /\ last_call' = Returned("start", "Err", caller)
            /\ UNCHANGED <<state, current_time, event_bus, ticks>>
       ELSE /\ LogRoom
            /\ state' = "Running"
            /\ current_time' = 0
            /\ event_bus' = EmitIfLogging(configuration, event_bus,
                                ModelEvent("SimulationStarted", 0, None))
            /\ ticks' = 0
            /\ last_call' = Returned("start", "Ok", caller)
    /\ UNCHANGED <<configuration, agents, collaborators, statistics>>

Start == run_pc = "idle" /\ start("user") /\ UNCHANGED run_pc

PauseFails == state # "Running"

Pause ==
    /\ run_pc = "idle"
    /\ IF PauseFails
       THEN /\ last_call' = Returned("pause", "Err", "user")
            /\ UNCHANGED <<state, event_bus>>
       ELSE /\ LogRoom
            /\ state' = "Paused"
            /\ event_bus' = EmitIfLogging(configuration, event_bus,
                                ModelEvent("SimulationPaused", current_time, None))
            /\ last_call' = Returned("pause", "Ok", "user")
    /\ UNCHANGED <<configuration, current_time, agents, collaborators, statistics,
                   run_pc, ticks>>

\* mutant: resume() recomputes the statistics
ResumeUpdatingStatistics ==
    /\ run_pc = "idle"
    /\ IF state # "Paused"
       THEN /\ last_call' = Returned("resume", "Err", "user")
            /\ UNCHANGED <<state, event_bus, statistics>>
       ELSE /\ LogRoom
            /\ state' = "Running"
            /\ statistics' = update_statistics(statistics, agents, current_time)
            /\ event_bus' = EmitIfLogging(configuration, event_bus,
                                ModelEvent("SimulationResumed", current_time, None))
            /\ last_call' = Returned("resume", "Ok", "user")
    /\ UNCHANGED <<configuration, current_time, agents, collaborators, run_pc, ticks>>

\* mutant: resume() refused only while Running
ResumeFailsOnlyRunning == state = "Running"

ResumeFails == state # "Paused"

Resume ==
    /\ run_pc = "idle"
    /\ IF ResumeFails
       THEN /\ last_call' = Returned("resume", "Err", "user")
            /\ UNCHANGED <<state, event_bus>>
       ELSE /\ LogRoom
            /\ state' = "Running"
            /\ event_bus' = EmitIfLogging(configuration, event_bus,
                                ModelEvent("SimulationResumed", current_time, None))
            /\ last_call' = Returned("resume", "Ok", "user")
    /\ UNCHANGED <<configuration, current_time, agents, collaborators, statistics,
                   run_pc, ticks>>

\* mutant: stop() forgets that Completed is final
StopIsNoopOnlyError == state = "Error"

\* stop() returns at once, changing nothing, in these states
StopIsNoop == state = "Completed" \/ state = "Error"

\* the effect of stop() on the model (it always returns Ok)
stop ==
    IF StopIsNoop
    THEN UNCHANGED <<state, statistics, event_bus>>
    ELSE /\ LogRoom
         /\ state' = "Completed"
         /\ statistics' = update_statistics(statistics, agents, current_time)
         /\ event_bus' = EmitIfLogging(configuration, event_bus,
                             ModelEvent("SimulationCompleted", current_time, None))

Stop ==
    /\ run_pc = "idle"
    /\ stop
    /\ last_call' = Returned("stop", "Ok", "user")
    /\ UNCHANGED <<configuration, current_time, agents, collaborators, run_pc, ticks>>

\* mutant: the termination test lets one excess tick through
ExceedsMaxTimeByTwo(new_time) == new_time > configuration.max_simulation_time + 1

\* mutant: the termination test stops at the boundary tick
ReachesMaxTime(new_time) == new_time >= configuration.max_simulation_time

\* the termination test of step()
ExceedsMaxTime(new_time) == new_time > configuration.max_simulation_time

\* mutant: the batch lists the changes last to first
GenerateInformationReversed(changes, new_time) ==
    [i \in 1 .. Len(changes) |->
        Information(changes[Len(changes) + 1 - i].description, "system", new_time, 100,
                    changes[Len(changes) + 1 - i].change_type)]

\* one Information item per environment change
GenerateInformation(changes, new_time) ==
    [i \in 1 .. Len(changes) |->
        Information(changes[i].description, "system", new_time, 100,
                    changes[i].change_type)]

\* the tick counter is kept modulo TickCap, which is more ticks than any
\* terminating run of the modelled configurations executes
TickCap == RunMaxTime + 2
CountTick(n) == (n + 1) % TickCap

\* the time step() stores after a tick
AdvancedTime(new_time) == new_time

\* step() is refused outside Running
StepFails == state # "Running"

\* mutant: a tick aborted by a collaborator error still commits its time
AbortTickCommitsTime(new_time) ==
    /\ current_time' = new_time
    /\ UNCHANGED <<state, statistics, ticks>>

\* mutant: a tick aborted by a collaborator error puts the model in Error
AbortTickEntersError(new_time) ==
    /\ state' = "Error"
    /\ UNCHANGED <<current_time, statistics, ticks>>

\* what the early return of a failed `?` in step() leaves of the model: the
\* state and the time and statistics stored by the last successful tick
AbortTick(new_time) == UNCHANGED <<state, current_time, statistics, ticks>>

\* step() with the sum current_time + time_step computed as new_time
step_to(caller, new_time) ==
    /\ UNCHANGED <<configuration, agents>>
    /\ IF StepFails
       THEN /\ last_call' = Returned("step", "Err", caller)
            /\ UNCHANGED <<state, current_time, collaborators, statistics,
                           event_bus, ticks>>
       ELSE IF ExceedsMaxTime(new_time)
       THEN /\ stop
            /\ last_call' = Returned("step", "Ok", caller)
            /\ UNCHANGED <<current_time, collaborators, ticks>>
       ELSE
         /\ TimeInBounds(new_time)
         /\ UNCHANGED event_bus
         /\ \E failing \in {NoFailure} \cup EnvFailPoints(environment, new_time),
               done \in SUBSET AssetIds :
              LET upd == update_to_time(environment, new_time, failing, done) IN
              /\ failing \in AssetIds => failing \notin done
              /\ failing \notin AssetIds => done = AssetIds
              /\ environment' = upd.env
              /\ IF ~ upd.ok
                 THEN /\ last_call' = Call("step", "Err", caller, {}, TRUE)
                      /\ AbortTick(new_time)
                      /\ UNCHANGED information_transformer
                 ELSE LET all_information == GenerateInformation(upd.changes, new_time) IN
                      \E failed \in {NoFailure} \cup DOMAIN agents,
                         visited \in SUBSET DOMAIN agents :
                          /\ failed = NoFailure => visited = DOMAIN agents
                          /\ failed # NoFailure =>
                                /\ failed \notin visited
                                /\ CanFail(information_transformer, all_information)
                          /\ information_transformer' =
                                ProcessAgents(information_transformer, visited,
                                              all_information)
                          /\ IF failed # NoFailure
                             THEN /\ last_call' = Call("step", "Err", caller,
                                                       visited \cup {failed}, TRUE)
                                  /\ AbortTick(new_time)
                             ELSE /\ UNCHANGED state
                                  /\ current_time' = AdvancedTime(new_time)
                                  /\ statistics' = update_statistics(statistics, agents,
                                                       AdvancedTime(new_time))
                                  /\ ticks' = CountTick(ticks)
                                  /\ last_call' = Call("step", "Ok", caller, visited, TRUE)

\* on the grid of Spec and RunSpec the f64 sum is exact
step(caller) == step_to(caller, current_time + configuration.time_step)

Step == run_pc = "idle" /\ step("user") /\ UNCHANGED run_pc

\* mutant: reset() keeps the time reached
ResetKeepingTime ==
    /\ run_pc = "idle"
    /\ IF state = "Running"
       THEN /\ last_call' = Returned("reset", "Err", "user")
            /\ UNCHANGED <<state, statistics, agents, event_bus, ticks>>
       ELSE /\ state' = "Initialized"
            /\ statistics' = NewStatistics
            /\ agents' = [a \in DOMAIN agents |-> clear_history(agents[a])]
            /\ event_bus' = clear_events(event_bus)
            /\ ticks' = 0
            /\ last_call' = Returned("reset", "Ok", "user")
    /\ UNCHANGED <<configuration, current_time, collaborators, run_pc>>

\* mutant: reset() never refused
ResetNeverFails == FALSE

ResetFails == state = "Running"

Reset ==
    /\ run_pc = "idle"
    /\ IF ResetFails
       THEN /\ last_call' = Returned("reset", "Err", "user")
            /\ UNCHANGED <<state, current_time, statistics, agents, event_bus, ticks>>
       ELSE /\ state' = "Initialized"
            /\ current_time' = 0
            /\ statistics' = NewStatistics
            /\ agents' = [a \in DOMAIN agents |-> clear_history(agents[a])]
            /\ event_bus' = clear_events(event_bus)
            /\ ticks' = 0
            /\ last_call' = Returned("reset", "Ok", "user")
    /\ UNCHANGED <<configuration, collaborators, run_pc>>

\* run(): start()?, then while state == Running { step()? }, then Ok
RunStart ==
    /\ run_pc = "idle"
    /\ start("run")
    /\ run_pc' = IF StartFails THEN "failed" ELSE "loop"

RunStep ==
    /\ run_pc = "loop"
    /\ state = "Running"
    /\ step("run")
    /\ run_pc' = IF last_call'.result = "Err" THEN "failed" ELSE "loop"

RunReturn ==
    /\ \/ run_pc = "failed" /\ last_call' = Returned("run", "Err", "user")
       \/ run_pc = "loop" /\ state # "Running"
                          /\ last_call' = Returned("run", "Ok", "user")
    /\ run_pc' = "idle"
    /\ UNCHANGED <<configuration, state, current_time, agents, collaborators,
                   event_bus, statistics, ticks>>

Next ==
    \/ AddAgent
    \/ RemoveAgent
    \/ Start
    \/ Pause
    \/ Resume
    \/ Stop
    \/ Step
    \/ Reset
    \/ RunStart
    \/ RunStep
    \/ RunReturn

Spec == Init /\ [][Next]_vars

\* ------------------------------------------------------------------- run()
\* run() alone, over a wider range of configurations and with two agents.  A
\* run() in progress holds the model exclusively, so its loop is scheduled
\* until it returns: weak fairness of its steps.  Negative time steps, whose
\* clock runs down without bound, are followed in Spec only.
RunInit == ModelInit(Configurations(RunTimeSteps, RunMaxTimes, {TRUE}))

RunNext ==
    \/ AddAgentFrom(RunAgentIds)
    \/ RunStart
    \/ RunStep
    \/ RunReturn
    \/ Stop
    \/ Reset

RunSpec == RunInit /\ [][RunNext]_vars /\ WF_vars(RunStep) /\ WF_vars(RunReturn)

\* ------------------------------------------------------------------ the clock
\* the model with positive time steps whose sums the format has to round
ClockTimeSteps == {3, 5}
ClockMaxTimes == {2, ClockMaxTime}

ClockInit == ModelInit(Configurations(ClockTimeSteps, ClockMaxTimes, {FALSE}))

ClockStep ==
    /\ run_pc = "idle"
    /\ step_to("user", FloatAdd(current_time, configuration.time_step))
    /\ UNCHANGED run_pc

ClockNext ==
    \/ AddAgent
    \/ Start
    \/ ClockStep
    \/ Pause
    \/ Resume
    \/ Stop
    \/ Reset

ClockSpec == ClockInit /\ [][ClockNext]_vars

\* ------------------------------------------------------------ the agent map
\* add_agent and remove_agent with two agent ids, in every model state that
\* the lifecycle calls reach without executing a tick
AgentMapInit == ModelInit(Configurations({MaxTimeStep}, {MaxTime}, BOOLEAN))

AgentMapNext ==
    \/ AddAgentFrom(RunAgentIds)
    \/ RemoveAgentFrom(RunAgentIds)
    \/ Start
    \/ Pause
    \/ Stop
    \/ Reset

AgentMapSpec == AgentMapInit /\ [][AgentMapNext]_vars

\* ---------------------------------------------------------- the Transformer
\* a Transformer on its own
FilterInputs == {[min_reliability |-> 20], [min_reliability |-> 50]}
DistorterInputs == {[bias_strength |-> 0 - 40], [bias_strength |-> 120]}
InformationInputs ==
    {Information("low", "system", 0, 30, "t"), Information("high", "system", 0, 80, "t")}
RawInputs == UNION {[1 .. n -> InformationInputs] : n \in 0 .. MaxRaw}
ClearTimes == 0 .. MaxExpiry + 1

\* failed: the kind of the invocation that returned the error of the call
TransformerCall(op, result, agent_id, time, raw, returned, failed) ==
    [op |-> op, result |-> result, agent_id |-> agent_id, time |-> time,
     raw |-> raw, returned |-> returned, failed |-> failed]

model_only == <<configuration, state, current_time, agents, environment,
                event_bus, statistics, run_pc, ticks>>

\* a freshly built model around one of the given transformers
TransformerInit(transformers) ==
    /\ configuration \in Configurations({MaxTimeStep}, {MaxTime}, {TRUE})
    /\ state = "Initialized"
    /\ current_time = 0
    /\ agents = << >>
    /\ environment = NewEnvironment
    /\ information_transformer \in transformers
    /\ event_bus = NewEventBus
    /\ statistics = NewStatistics
    /\ last_call = TransformerCall("new", "Ok", None, None, <<>>, <<>>, None)
    /\ run_pc = "idle"
    /\ ticks = 0

AddFilter ==
    /\ Len(information_transformer.filters) < MaxFilters
    /\ \E filter \in FilterInputs :
          information_transformer' = add_filter(information_transformer, filter)
    /\ last_call' = TransformerCall("add_filter", "Ok", None, None, <<>>, <<>>, None)
    /\ UNCHANGED model_only

AddDistorter ==
    /\ Len(information_transformer.distorters) < MaxDistorters
    /\ \E distorter \in DistorterInputs :
          information_transformer' = add_distorter(information_transformer, distorter)
    /\ last_call' = TransformerCall("add_distorter", "Ok", None, None, <<>>, <<>>, None)
    /\ UNCHANGED model_only

\* the failure points of a call: none (0), or the position of an invocation
FailPoints(tr, raw) == 0 .. Len(Invocations(tr, raw))

\* one call of process_information_for_agent
ProcessCall(agent_id, raw, fail_at) ==
    LET r == process_information_traced(information_transformer, agent_id, raw, fail_at)
    IN /\ information_transformer' = r.transformer
       /\ last_call' = TransformerCall("process_information_for_agent",
                           IF r.ok THEN "Ok" ELSE "Err", Some(agent_id), None,
                           raw, r.info,
                           IF r.ok THEN None ELSE Some(r.calls[fail_at].kind))
       /\ UNCHANGED model_only

ProcessInformationFor(ids) ==
    \E agent_id \in ids, raw \in RawInputs :
        \E fail_at \in FailPoints(information_transformer, raw) :
            ProcessCall(agent_id, raw, fail_at)

\* one call of clear_expired_cache
ClearCall(time) ==
    /\ information_transformer' = clear_expired_cache(information_transformer, time)
    /\ last_call' = TransformerCall("clear_expired_cache", "Ok", None, Some(time),
                        <<>>, <<>>, None)
    /\ UNCHANGED model_only

ClearExpiredCache == \E time \in ClearTimes : ClearCall(time)

\* the pipeline as a function of the registered filters and distorters, the
\* raw information and the failure point: up to MaxFilters filters and
\* MaxDistorters distorters are registered in any order, then one call is
\* made (what a call invokes and returns does not depend on earlier calls:
\* the cache is only written; sequences of calls are followed in CacheSpec)
SettingUp == last_call.op # "process_information_for_agent"

RegisterFilter == SettingUp /\ AddFilter

RegisterDistorter == SettingUp /\ AddDistorter

FirstProcessInformation == SettingUp /\ ProcessInformationFor(AgentIds)

PipelineInit == TransformerInit({Transformer_new(MaxExpiry)})

PipelineNext ==
    \/ RegisterFilter
    \/ RegisterDistorter
    \/ FirstProcessInformation

PipelineSpec == PipelineInit /\ [][PipelineNext]_vars

\* the cache: the transformer of the model (one filter, one distorter)
\* processes information for two agents and expires its cache
CacheInit == TransformerInit({ModelTransformer(MaxExpiry)})

CacheNext ==
    \/ ProcessInformationFor(RunAgentIds)
    \/ ClearExpiredCache

CacheSpec == CacheInit /\ [][CacheNext]_vars

\* ---------------------------------------------------------- the Environment
\* an Environment on its own: assets and processes are registered and the
\* environment is updated to arbitrary times
EnvAssetIds == {"p1", "p2"}
ProcessInputs ==
    {[name |-> "weather", active_from |-> 0],
     [name |-> "market", active_from |-> 1],
     [name |-> "policy", active_from |-> 2]}
UpdateTimes == 0 .. MaxTime

EnvironmentCall(op, result, time, changes, calls) ==
    [op |-> op, result |-> result, time |-> time, changes |-> changes, calls |-> calls]

environment_only == <<configuration, state, current_time, agents,
                      information_transformer, event_bus, statistics, run_pc, ticks>>

EnvironmentInit ==
    /\ configuration \in Configurations({MaxTimeStep}, {MaxTime}, {TRUE})
    /\ state = "Initialized"
    /\ current_time = 0
    /\ agents = << >>
    /\ environment = EmptyEnvironment
    /\ information_transformer = NewTransformer
    /\ event_bus = NewEventBus
    /\ statistics = NewStatistics
    /\ last_call = EnvironmentCall("new", "Ok", None, <<>>, <<>>)
    /\ run_pc = "idle"
    /\ ticks = 0

AddPhysicalAssetCall(asset_id) ==
    LET r == add_physical_asset(environment, asset_id) IN
    /\ environment' = r.env
    /\ last_call' = EnvironmentCall("add_physical_asset",
                        IF r.ok THEN "Ok" ELSE "Err", None, <<>>, <<>>)
    /\ UNCHANGED environment_only

AddPhysicalAsset == \E asset_id \in EnvAssetIds : AddPhysicalAssetCall(asset_id)

\* the processes registered are distinct collaborators
AddExogenousProcess ==
    /\ Len(environment.exogenous_processes) < MaxProcesses
    /\ \E process \in ProcessInputs :
          /\ \A i \in DOMAIN environment.exogenous_processes :
                environment.exogenous_processes[i] # process
          /\ environment' = add_exogenous_process(environment, process)
    /\ last_call' = EnvironmentCall("add_exogenous_process", "Ok", None, <<>>, <<>>)
    /\ UNCHANGED environment_only

\* one call of update_to_time
UpdateCall(new_time, failing, order) ==
    LET r == update_to_time_traced(environment, new_time, failing, order) IN
    /\ environment' = r.env
    /\ last_call' = EnvironmentCall("update_to_time", IF r.ok THEN "Ok" ELSE "Err",
                        Some(new_time), r.changes, r.calls)
    /\ UNCHANGED environment_only

UpdateToTime ==
    \E new_time \in UpdateTimes :
        \E failing \in {NoFailure} \cup EnvFailPoints(environment, new_time),
           order \in VisitOrders(DOMAIN environment.physical_assets) :
            UpdateCall(new_time, failing, order)

EnvironmentNext ==
    \/ AddPhysicalAsset
    \/ AddExogenousProcess
    \/ UpdateToTime

EnvironmentSpec == EnvironmentInit /\ [][EnvironmentNext]_vars

\* ---------------------------------------------------------------- asset maps
\* physical and knowledge assets are added, some under an ID already present,
\* and update_to_time ages the physical ones
KnowledgeInputs ==
    {[asset_id |-> "k1", content |-> "c1"],
     [asset_id |-> "k1", content |-> "c2"],
     [asset_id |-> "k2", content |-> "c1"]}

AddKnowledgeAssetCall(asset) ==
    LET r == add_knowledge_asset(environment, asset) IN
    /\ environment' = r.env
    /\ last_call' = EnvironmentCall("add_knowledge_asset",
                        IF r.ok THEN "Ok" ELSE "Err", None, <<>>, <<>>)
    /\ UNCHANGED environment_only

AddKnowledgeAsset == \E asset \in KnowledgeInputs : AddKnowledgeAssetCall(asset)

AssetNext ==
    \/ AddPhysicalAsset
    \/ AddKnowledgeAsset
    \/ UpdateToTime

AssetSpec == EnvironmentInit /\ [][AssetNext]_vars

\* -------------------------------------------------------------- one agent
\* a ConsumerAgent driven directly through process_trigger and clear_history
Triggers == {"Temporal", "Economic"}
Choices == {"choice1", "choice2"}
TriggerTimes == 0 .. MaxTime

AgentCall(op, result, time, returned, outcome) ==
    [op |-> op, result |-> result, time |-> time, returned |-> returned,
     outcome |-> outcome]

agent_only == <<configuration, state, current_time, environment,
                information_transformer, event_bus, statistics, run_pc, ticks>>

AgentInit ==
    /\ configuration \in Configurations({MaxTimeStep}, {MaxTime}, {TRUE})
    /\ state = "Initialized"
    /\ current_time = 0
    /\ agents = [a \in AgentIds |-> ConsumerAgent_new(50)]
    /\ environment = NewEnvironment
    /\ information_transformer = NewTransformer
    /\ event_bus = NewEventBus
    /\ statistics = NewStatistics
    /\ last_call = AgentCall("new", "Ok", None, None, "none")
    /\ run_pc = "idle"
    /\ ticks = 0

ProcessTriggerCall(id, trigger, outcome, time) ==
    LET r == process_trigger(agents[id], trigger, outcome, time) IN
    /\ agents' = [agents EXCEPT ![id] = r.agent]
    /\ last_call' = AgentCall("process_trigger", IF r.ok THEN "Ok" ELSE "Err",
                        Some(time), r.chosen, outcome.kind)
    /\ UNCHANGED agent_only

ProcessTrigger ==
    \E id \in DOMAIN agents, trigger \in Triggers,
       outcome \in ChoiceOutcomes(Choices), time \in TriggerTimes :
        /\ outcome.kind = "chosen" => Len(agents[id].choice_history) < MaxChoices
        /\ ProcessTriggerCall(id, trigger, outcome, time)

ClearHistory ==
    /\ \E id \in DOMAIN agents : agents' = [agents EXCEPT ![id] = clear_history(@)]
    /\ last_call' = AgentCall("clear_history", "Ok", None, None, "none")
    /\ UNCHANGED agent_only

AgentNext ==
    \/ ProcessTrigger
    \/ ClearHistory

AgentSpec == AgentInit /\ [][AgentNext]_vars

\* ------------------------------------------------------------ one event bus
\* an EventBus of a small capacity; last_call.emitted lists the events
\* emitted since construction or the last clear_events
Capacities == 0 .. MaxCapacity
EventInputs ==
    {ModelEvent(type, Some(0), None) :
        type \in {"ModelStarted", "ModelPaused", "ModelResumed"}}

EventBusCall(op, emitted) == [op |-> op, emitted |-> emitted]

event_bus_only == <<configuration, state, current_time, agents, environment,
                    information_transformer, statistics, run_pc, ticks>>

EventBusInit ==
    /\ configuration \in Configurations({MaxTimeStep}, {MaxTime}, {TRUE})
    /\ state = "Initialized"
    /\ current_time = 0
    /\ agents = << >>
    /\ environment = NewEnvironment
    /\ information_transformer = NewTransformer
    /\ event_bus \in {with_max_events(m) : m \in Capacities}
    /\ statistics = NewStatistics
    /\ last_call = EventBusCall("with_max_events", <<>>)
    /\ run_pc = "idle"
    /\ ticks = 0

Emit ==
    /\ Len(last_call.emitted) < MaxEmits
    /\ \E event \in EventInputs :
          /\ event_bus' = emit(event_bus, event)
          /\ last_call' = EventBusCall("emit", Append(last_call.emitted, event))
    /\ UNCHANGED event_bus_only

ClearEvents ==
    /\ event_bus' = clear_events(event_bus)
    /\ last_call' = EventBusCall("clear_events", <<>>)
    /\ UNCHANGED event_bus_only

EventBusNext ==
    \/ Emit
    \/ ClearEvents

EventBusSpec == EventBusInit /\ [][EventBusNext]_vars

\* ------------------------------------------------------------ one validator
\* validate_agent_attributes applied to attribute maps under rules that
\* require none, one or both of the attributes the maps may hold
PsychologicalNames == {"risk_aversion", "openness"}
SocioeconomicNames == {"income"}
PsychologicalValues == {-1, 0, 50, 100, 150}
SocioeconomicValues == {-1, 0, 5000000}

RuleInputs ==
    {ValidationRules(p, e) : p \in SUBSET {"risk_aversion"}, e \in SUBSET {"income"}}

\* the maps holding a value for some of the names
Maps(names, values) == UNION {[present -> values] : present \in SUBSET names}

AttributeInputs ==
    [psychological : Maps(PsychologicalNames, PsychologicalValues),
     socioeconomic : Maps(SocioeconomicNames, SocioeconomicValues)]

ValidatorCall(op, rules, attributes, result) ==
    [op |-> op, rules |-> rules, attributes |-> attributes, result |-> result]

validator_only == <<configuration, state, current_time, agents, environment,
                    information_transformer, event_bus, statistics, run_pc, ticks>>

ValidatorInit ==
    /\ configuration \in Configurations({MaxTimeStep}, {MaxTime}, {TRUE})
    /\ state = "Initialized"
    /\ current_time = 0
    /\ agents = << >>
    /\ environment = NewEnvironment
    /\ information_transformer = NewTransformer
    /\ event_bus = NewEventBus
    /\ statistics = NewStatistics
    /\ last_call \in {ValidatorCall("with_rules", rules, None, "Ok") : rules \in RuleInputs}
    /\ run_pc = "idle"
    /\ ticks = 0

ValidateAgentAttributes ==
    /\ \E attributes \in AttributeInputs :
          last_call' = ValidatorCall("validate_agent_attributes", last_call.rules,
                           Some(attributes),
                           validate_attribute_maps(last_call.rules, attributes))
    /\ UNCHANGED validator_only

ValidatorNext == ValidateAgentAttributes

ValidatorSpec == ValidatorInit /\ [][ValidatorNext]_vars

\* ------------------------------------------------- one event bus, two threads
\* emit() called from several threads on a shared EventBus.  Each of the two
\* `if let Ok(..) = ...lock()` blocks of emit is a critical section of its
\* own: an emitting thread stores its event under the events lock, releases
\* it, and then takes the handlers lock to call the handlers one by one.
\* Here run_pc holds the position of every thread inside emit, event_bus
\* also holds the registered handlers, and last_call.handled what each
\* handler has been called with.
Threads == {"t1", "t2"}
HandlerIds == {"h1", "h2"}

\* the n-th event thread t emits
ThreadEvent(t, n) ==
    ModelEvent(IF t = "t1" THEN "ModelStarted" ELSE "ModelPaused", Some(n), None)

SharedEventBus ==
    [events |-> << >>, max_events |-> DefaultMaxEvents, handlers |-> << >>]

ThreadAt(at, event, next, emitted) ==
    [at |-> at, event |-> event, next |-> next, emitted |-> emitted]

HandlerCalls(op, handled) == [op |-> op, handled |-> handled]

emit_only == <<configuration, state, current_time, agents, environment,
               information_transformer, statistics, ticks>>

ConcurrentEmitInit ==
    /\ configuration \in Configurations({MaxTimeStep}, {MaxTime}, {TRUE})
    /\ state = "Initialized"
    /\ current_time = 0
    /\ agents = << >>
    /\ environment = NewEnvironment
    /\ information_transformer = NewTransformer
    /\ event_bus = SharedEventBus
    /\ statistics = NewStatistics
    /\ last_call = HandlerCalls("new", [h \in HandlerIds |-> << >>])
    /\ run_pc = [t \in Threads |-> ThreadAt("idle", None, 0, 0)]
    /\ ticks = 0

\* the handlers lock is held by the thread that is calling the handlers
HandlersLocked == \E t \in Threads : run_pc[t].at = "notifying"

\* add_handler: push under the handlers lock
AddHandler ==
    /\ ~ HandlersLocked
    /\ \E h \in HandlerIds :
          /\ \A i \in DOMAIN event_bus.handlers : event_bus.handlers[i] # h
          /\ event_bus' = [event_bus EXCEPT !.handlers = Append(@, h)]
    /\ last_call' = [last_call EXCEPT !.op = "add_handler"]
    /\ UNCHANGED <<emit_only, run_pc>>

\* emit, first block: push (and evict) under the events lock
EmitStore(t) ==
    /\ run_pc[t].at = "idle"
    /\ run_pc[t].emitted < MaxThreadEmits
    /\ LET event == ThreadEvent(t, run_pc[t].emitted + 1) IN
       /\ event_bus' = emit(event_bus, event)
       /\ run_pc' = [run_pc EXCEPT ![t] =
                        ThreadAt("stored", Some(event), 0, @.emitted + 1)]
    /\ last_call' = [last_call EXCEPT !.op = "emit"]
    /\ UNCHANGED emit_only

\* emit, second block: take the handlers lock
EmitLockHandlers(t) ==
    /\ run_pc[t].at = "stored"
    /\ ~ HandlersLocked
    /\ run_pc' = [run_pc EXCEPT ![t].at = "notifying", ![t].next = 1]
    /\ UNCHANGED <<emit_only, event_bus, last_call>>

\* emit, second block: handler.handle_event(&event) for the next handler
EmitNotify(t) ==
    /\ run_pc[t].at = "notifying"
    /\ run_pc[t].next <= Len(event_bus.handlers)
    /\ LET h == event_bus.handlers[run_pc[t].next] IN
       last_call' = [last_call EXCEPT !.op = "handle_event",
                                      !.handled[h] = Append(@, run_pc[t].event[1])]
    /\ run_pc' = [run_pc EXCEPT ![t].next = @ + 1]
    /\ UNCHANGED <<emit_only, event_bus>>

\* emit returns: the handlers lock is released
EmitReturn(t) ==
    /\ run_pc[t].at = "notifying"
    /\ run_pc[t].next > Len(event_bus.handlers)
    /\ run_pc' = [run_pc EXCEPT ![t] = ThreadAt("idle", None, 0, @.emitted)]
    /\ UNCHANGED <<emit_only, event_bus, last_call>>

ConcurrentEmitNext ==
    \/ AddHandler
    \/ \E t \in Threads : EmitStore(t)
    \/ \E t \in Threads : EmitLockHandlers(t)
    \/ \E t \in Threads : EmitNotify(t)
    \/ \E t \in Threads : EmitReturn(t)

ConcurrentEmitSpec == ConcurrentEmitInit /\ [][ConcurrentEmitNext]_vars

\* ==================================================================== claims
Events == event_bus.events
Logging == configuration.event_logging_enabled
NewTime == current_time + configuration.time_step

\* the step just taken is a call of op (every call records itself in last_call)
Called(op) == last_call'.op = op

CompletedEvent(t) == ModelEvent("SimulationCompleted", t, None)
StartedEvent(t) == ModelEvent("SimulationStarted", t, None)

\* C1: the model state changes only along the edges Initialized->Running
\* (start), Running->Paused (pause), Paused->Running (resume),
\* Initialized/Running/Paused->Completed (stop, or step when the next time
\* exceeds max_simulation_time) and Paused/Completed->Initialized (reset).
C1_StateEdges ==
    [][state' # state =>
        \/ state = "Initialized" /\ state' = "Running" /\ Called("start")
        \/ state = "Running" /\ state' = "Paused" /\ Called("pause")
        \/ state = "Paused" /\ state' = "Running" /\ Called("resume")
        \/ /\ state \in {"Initialized", "Running", "Paused"}
           /\ state' = "Completed"
           /\ \/ Called("stop")
              \/ /\ Called("step")
                 /\ state = "Running"
                 /\ NewTime > configuration.max_simulation_time
        \/ /\ state \in {"Paused", "Completed"}
           /\ state' = "Initialized"
           /\ Called("reset")]_vars

\* C1 witness: a model that executed ticks, completed and was reset
C1_Witness ==
    /\ last_call.op = "reset"
    /\ last_call.pre_state = "Completed"
    /\ state = "Initialized"
    /\ environment.current_time > 0

\* a lifecycle call made in a state where it is illegal
IllegalCall ==
    \/ Called("add_agent") /\ state # "Initialized"
    \/ Called("remove_agent") /\ state = "Running"
    \/ Called("start") /\ state # "Initialized"
    \/ Called("pause") /\ state # "Running"
    \/ Called("resume") /\ state # "Paused"
    \/ Called("step") /\ state # "Running"
    \/ Called("reset") /\ state = "Running"

\* C2: every lifecycle call made in a state where it is illegal returns an
\* error and leaves state, current_time, agents, statistics and the event
\* log as they were.
C2_IllegalCallsChangeNothing ==
    [][IllegalCall =>
        /\ last_call'.result = "Err"
        /\ UNCHANGED <<state, current_time, agents, statistics, event_bus>>]_vars

\* C2 witness: reset() refused while Running, after a tick, with events logged
C2_Witness ==
    /\ last_call.op = "reset"
    /\ last_call.result = "Err"
    /\ state = "Running"
    /\ current_time > 0
    /\ Len(Events) > 0

\* C3: step() while Running with current_time + time_step greater than
\* max_simulation_time executes no tick: the state becomes Completed,
\* current_time is unchanged, the Environment is not advanced, the
\* Transformer is invoked for no agent, and step() returns success.
C3_ExcessTickNotExecuted ==
    [][(Called("step") /\ state = "Running"
            /\ NewTime > configuration.max_simulation_time) =>
        /\ state' = "Completed"
        /\ current_time' = current_time
        /\ environment' = environment
        /\ information_transformer' = information_transformer
        /\ last_call'.processed = {}
        /\ ~ last_call'.env_called
        /\ last_call'.result = "Ok"]_vars

\* C3 witness: a step() that stopped the simulation after executed ticks
C3_Witness ==
    /\ last_call.op = "step"
    /\ last_call.pre_state = "Running"
    /\ state = "Completed"
    /\ current_time > 0
    /\ current_time + configuration.time_step > configuration.max_simulation_time

\* the step just taken is a step() call that executed its tick
TickExecuted ==
    /\ Called("step")
    /\ last_call'.result = "Ok"
    /\ ~ (NewTime > configuration.max_simulation_time)

\* C4: every step() call that returns success (having executed its tick)
\* leaves current_time equal to the time before the call plus time_step, and
\* no step() call ever decreases current_time.
C4_MonotonicTime ==
    [][Called("step") =>
        /\ TickExecuted => current_time' = current_time + configuration.time_step
        /\ current_time' >= current_time]_vars

\* run() has just returned success
RunReturnedOk == last_call.op = "run" /\ last_call.result = "Ok"

RunTicksAsClaimed ==
    LET T == configuration.max_simulation_time
        dt == configuration.time_step
    IN /\ ticks = T \div dt
       /\ state = "Completed"
       /\ current_time = dt * (T \div dt)
       /\ (T = 10 /\ dt = 1) => ticks = 10
       /\ (T = 10 /\ dt = 3) => ticks = 3

C6_RunTerminates == (run_pc = "loop") ~> (run_pc = "idle")

\* C7 as stated: in every reachable state, start() fails if and only if the
\* agent set is empty.
C7_StartFailsIffNoAgents ==
    [][Called("start") => (last_call'.result = "Err" <=> DOMAIN agents = {})]_vars

\* C7 (amended): start() fails if and only if the state is not Initialized or
\* the agent set is empty; in state Initialized it fails iff there is no agent.
C7_StartFailsIff ==
    [][Called("start") =>
        (last_call'.result = "Err" <=>
            (state # "Initialized" \/ DOMAIN agents = {}))]_vars

\* C7 witness: start() refused in Initialized because there is no agent
C7_Witness ==
    /\ last_call.op = "start"
    /\ last_call.result = "Err"
    /\ last_call.pre_state = "Initialized"
    /\ DOMAIN agents = {}

\* C8: start() in Initialized with at least one agent succeeds, sets the state
\* to Running and current_time to 0, appends exactly one SimulationStarted
\* event when event logging is enabled (none otherwise) and leaves the agent
\* map unchanged.
C8_StartEffect ==
    [][(Called("start") /\ state = "Initialized" /\ DOMAIN agents # {}) =>
        /\ last_call'.result = "Ok"
        /\ state' = "Running"
        /\ current_time' = 0
        /\ agents' = agents
        /\ event_bus'.events =
              IF Logging THEN Append(Events, StartedEvent(0)) ELSE Events]_vars

\* C8 witness: a successful start() whose event is the last of the log
C8_Witness ==
    /\ last_call.op = "start"
    /\ last_call.result = "Ok"
    /\ state = "Running"
    /\ Logging
    /\ Len(Events) > 1
    /\ Events[Len(Events)] = StartedEvent(0)

\* C9 as stated: from any state the first stop() yields Completed and emits
\* one SimulationCompleted event; a stop() immediately after a stop() leaves
\* the state Completed, the statistics and the event log as they are.
C9_FirstStopAlwaysEmits ==
    [][Called("stop") =>
        /\ state' = "Completed"
        /\ IF last_call.op = "stop"
           THEN UNCHANGED <<statistics, event_bus>>
           ELSE event_bus'.events = Append(Events, CompletedEvent(current_time))]_vars

\* C9 (amended): stop() always returns success with the state Completed; from
\* a state other than Completed it emits exactly one SimulationCompleted
\* event when event logging is enabled and none otherwise; from Completed (so
\* for a second stop() in a row) it changes neither the statistics nor the
\* event log.
C9_StopIdempotent ==
    [][Called("stop") =>
        /\ last_call'.result = "Ok"
        /\ state' = "Completed"
        /\ UNCHANGED <<current_time, agents>>
        /\ IF state = "Completed"
           THEN UNCHANGED <<statistics, event_bus>>
           ELSE event_bus'.events =
                   IF Logging THEN Append(Events, CompletedEvent(current_time))
                   ELSE Events]_vars

\* C9 witness: a stop() called on a Completed model whose log holds exactly
\* one SimulationCompleted event
C9_Witness ==
    /\ last_call.op = "stop"
    /\ last_call.pre_state = "Completed"
    /\ state = "Completed"
    /\ Logging
    /\ Cardinality({i \in 1 .. Len(Events) :
                       Events[i].event_type = "SimulationCompleted"}) = 1

\* C10: reset() in any non-Running state restores current_time = 0 and state
\* Initialized, empties every agent's choice history and last_choice_time,
\* zeroes every statistics field and empties the event log, keeping the set
\* of agents.
C10_ResetRestores ==
    [][(Called("reset") /\ state # "Running") =>
        /\ last_call'.result = "Ok"
        /\ current_time' = 0
        /\ state' = "Initialized"
        /\ DOMAIN agents' = DOMAIN agents
        /\ \A a \in DOMAIN agents' :
              /\ agents'[a].choice_history = <<>>
              /\ agents'[a].last_choice_time = None
              /\ agents'[a].attributes = agents[a].attributes
        /\ statistics' = NewStatistics
        /\ event_bus'.events = <<>>]_vars

\* C10 witness: reset() of a Completed model that had executed ticks and
\* still holds its agent
C10_Witness ==
    /\ last_call.op = "reset"
    /\ last_call.result = "Ok"
    /\ last_call.pre_state = "Completed"
    /\ environment.current_time > 1
    /\ DOMAIN agents # {}
    /\ state = "Initialized"

AgentAddedEvent(id, t) == ModelEvent("AgentAdded", t, Some(id))
AgentRemovedEvent(id, t) == ModelEvent("AgentRemoved", t, Some(id))

\* the events of the log with the given type
EventsOfType(type) == {i \in 1 .. Len(Events) : Events[i].event_type = type}

\* C11: add_agent in state Initialized fails when the agent's id is already
\* in the agent map, and fails when validation is enabled and the agent's
\* attributes do not validate; in both cases the agent map is unchanged and
\* no event is emitted.  On success the agent is inserted under its id and
\* exactly one AgentAdded event is emitted when event logging is enabled.
C11_AddAgent ==
    [][\A id \in RunAgentIds, agent \in AgentInputs :
        (add_agent(id, agent) /\ state = "Initialized") =>
            /\ (\/ id \in DOMAIN agents
                \/ /\ configuration.validation_enabled
                   /\ ~ validate_agent_attributes(agent.attributes))
               => /\ last_call'.result = "Err"
                  /\ agents' = agents
                  /\ event_bus' = event_bus
            /\ last_call'.result = "Ok"
               => /\ id \notin DOMAIN agents
                  /\ DOMAIN agents' = DOMAIN agents \cup {id}
                  /\ agents'[id] = agent
                  /\ \A a \in DOMAIN agents : agents'[a] = agents[a]
                  /\ event_bus'.events =
                        IF Logging
                        THEN Append(Events, AgentAddedEvent(id, current_time))
                        ELSE Events]_vars

\* C11 witness: an add_agent refused for a taken id, after two agents were
\* added with their two AgentAdded events
C11_Witness ==
    /\ last_call.op = "add_agent"
    /\ last_call.result = "Err"
    /\ last_call.pre_state = "Initialized"
    /\ DOMAIN agents = RunAgentIds
    /\ Logging
    /\ Cardinality(EventsOfType("AgentAdded")) = 2

\* what C12 says of a remove_agent(id) call outside Running, given whether
\* the call emits its event
RemoveAgentAsClaimed(id, emits) ==
    IF id \in DOMAIN agents
    THEN /\ last_call'.result = "Ok"
         /\ DOMAIN agents' = DOMAIN agents \ {id}
         /\ \A a \in DOMAIN agents' : agents'[a] = agents[a]
         /\ event_bus'.events =
               IF emits THEN Append(Events, AgentRemovedEvent(id, current_time))
               ELSE Events
    ELSE /\ last_call'.result = "Err"
         /\ agents' = agents
         /\ event_bus' = event_bus

\* C12 as stated: remove_agent(id) in any state other than Running removes
\* exactly the agent with that id and emits one AgentRemoved event; if the id
\* is absent it returns an error and leaves the agent map and the event log
\* unchanged.
C12_RemoveAlwaysEmits ==
    [][\A id \in RunAgentIds :
        (remove_agent(id) /\ state # "Running") =>
            RemoveAgentAsClaimed(id, TRUE)]_vars

\* C12 (amended): the same, the AgentRemoved event being emitted only when
\* event logging is enabled.
C12_RemoveAgent ==
    [][\A id \in RunAgentIds :
        (remove_agent(id) /\ state # "Running") =>
            RemoveAgentAsClaimed(id, Logging)]_vars

\* C12 witness: one of two agents removed from a Paused model, its event
\* the last of the log
C12_Witness ==
    /\ last_call.op = "remove_agent"
    /\ last_call.result = "Ok"
    /\ last_call.pre_state = "Paused"
    /\ Cardinality(DOMAIN agents) = 1
    /\ Logging
    /\ Events[Len(Events)].event_type = "AgentRemoved"
    /\ Events[Len(Events)].agent_id \notin {Some(a) : a \in DOMAIN agents}

\* C13: when step() returns an error because the environment update or the
\* Transformer processing of some agent failed, current_time and the
\* statistics are those of the last successful step and the state remains
\* Running, so that a later step() or stop() is still accepted.
C13_FailedStepKeepsModel ==
    [][(Called("step") /\ state = "Running" /\ last_call'.result = "Err") =>
        /\ last_call'.env_called
        /\ current_time' = current_time
        /\ statistics' = statistics
        /\ state' = "Running"
        /\ ~ StepFails'
        /\ ~ StopIsNoop']_vars

\* C13 witness: after an executed tick, a step() failed in the Transformer
\* call of an agent, the Environment being one tick ahead of the model
C13_Witness ==
    /\ last_call.op = "step"
    /\ last_call.result = "Err"
    /\ last_call.caller = "user"
    /\ last_call.processed # {}
    /\ state = "Running"
    /\ current_time > 0
    /\ statistics.simulation_duration = current_time
    /\ environment.current_time = current_time + configuration.time_step

\* C14: the Error state is unreachable: after any sequence of add_agent,
\* remove_agent, start, pause, resume, stop, step, run and reset calls,
\* including calls whose collaborators fail, the state is one of Initialized,
\* Running, Paused or Completed.
C14_ErrorUnreachable ==
    state \in {"Initialized", "Running", "Paused", "Completed"}

\* C14 witness: run() returned the error of an exogenous process that failed
\* after the physical assets were updated
C14_Witness ==
    /\ last_call.op = "run"
    /\ last_call.result = "Err"
    /\ state = "Running"
    /\ \E a \in AssetIds : environment.physical_assets[a] > environment.current_time

\* the call of process_information_for_agent that the step just taken made
\* with these arguments and this failure point
Processed(agent_id, raw, fail_at) ==
    process_information_traced(information_transformer, agent_id, raw, fail_at)

\* the raw information the call just made was given
GivenRaw == last_call'.raw

\* the step just taken is the call for agent_id with this failure point
MadeCall(agent_id, fail_at) ==
    /\ last_call'.agent_id = Some(agent_id)
    /\ (fail_at = 0) = (last_call'.result = "Ok")
    /\ ProcessCall(agent_id, GivenRaw, fail_at)

Filters == information_transformer.filters
Distorters == information_transformer.distorters

\* the items of raw that every registered filter passes
Survivors(raw) ==
    SelectSeq(raw, LAMBDA item :
        \A i \in 1 .. Len(Filters) : passes_filter(Filters[i], item))

Items(information) == {information[i] : i \in DOMAIN information}

C15_Pipeline(raw, r) ==
    LET calls == r.calls IN
    \* the p-th invocation of the call is of the p-th registered filter, on
    \* the raw list or on exactly what the filter before it returned
    /\ \A p \in DOMAIN calls : calls[p].kind = "filter" =>
          /\ p <= Len(Filters)
          /\ calls[p].index = p
          /\ \A q \in 1 .. p - 1 : calls[q].kind = "filter"
          /\ calls[p].input =
                IF p = 1 THEN raw
                ELSE filter_information(Filters[p - 1], calls[p - 1].input)
    \* an item a filter rejects goes to no later filter and into no distorter
    \* chain, and is not in the result
    /\ \A p \in DOMAIN calls, item \in InformationInputs :
          (/\ calls[p].kind = "filter"
           /\ calls[p].result = "Ok"
           /\ item \in Items(calls[p].input)
           /\ ~ passes_filter(Filters[calls[p].index], item)) =>
              /\ \A q \in DOMAIN calls :
                    (q > p /\ (calls[q].kind = "filter" \/ calls[q].index = 1))
                        => item \notin Items(calls[q].input)
              /\ \A i \in DOMAIN r.info : r.info[i].content # item.content
    \* filters [F1, F2], distorters [D1, D2], one item that F1 rejects
    /\ (/\ Len(Filters) = 2
        /\ Len(Distorters) = 2
        /\ Len(raw) = 1
        /\ ~ passes_filter(Filters[1], raw[1])
        /\ r.ok) =>
           /\ r.info = << >>
           /\ \A p \in DOMAIN calls : calls[p].kind # "distorter"

\* C15: process_information_for_agent applies the registered filters in
\* registration order, each filter receiving exactly the previous filter's
\* output, so an item rejected by an earlier filter is never passed to a
\* later filter nor to any distorter and is absent from the result; with
\* filters [F1,F2], distorters [D1,D2] and a single item that F1 rejects, the
\* output is empty and D1 and D2 are never invoked.
C15_FiltersInOrder ==
    [][Called("process_information_for_agent") =>
        \A agent_id \in AgentIds :
        \A fail_at \in FailPoints(information_transformer, GivenRaw) :
            MadeCall(agent_id, fail_at) =>
                C15_Pipeline(GivenRaw, Processed(agent_id, GivenRaw, fail_at))]_vars

\* C15 witness: filters [F1,F2], distorters [D1,D2], a single item that F1
\* rejects and F2 would pass; the call returned the empty list
C15_Witness ==
    /\ last_call.op = "process_information_for_agent"
    /\ last_call.result = "Ok"
    /\ Len(Filters) = 2
    /\ Len(Distorters) = 2
    /\ Len(last_call.raw) = 1
    /\ ~ passes_filter(Filters[1], last_call.raw[1])
    /\ passes_filter(Filters[2], last_call.raw[1])
    /\ last_call.returned = << >>

\* position, among the invocations of a successful call, of distorter j for
\* the k-th surviving item
DistorterCall(k, j) == Len(Filters) + (k - 1) * Len(Distorters) + j

C16_Pipeline(raw, r) ==
    LET calls == r.calls
        nd == Len(Distorters)
        survivors == Survivors(raw)
    IN
    \* all filters run before any distorter
    /\ \A p \in DOMAIN calls : calls[p].kind = "distorter" =>
          /\ p > Len(Filters)
          /\ \A q \in 1 .. Len(Filters) : calls[q].kind = "filter"
          /\ \A q \in DOMAIN calls : q > p => calls[q].kind = "distorter"
    /\ r.ok =>
          /\ Len(calls) = Len(Filters) + Len(survivors) * nd
          \* every surviving item goes through every distorter in registration
          \* order, each on the output of the one before it
          /\ \A k \in DOMAIN survivors, j \in 1 .. nd :
                LET c == calls[DistorterCall(k, j)] IN
                /\ c.kind = "distorter"
                /\ c.index = j
                /\ c.input =
                      << IF j = 1 THEN survivors[k]
                         ELSE distort_information(Distorters[j - 1],
                                  calls[DistorterCall(k, j - 1)].input[1]) >>
          \* one result item per surviving item, in the filters' order
          /\ Len(r.info) = Len(survivors)
          /\ \A k \in DOMAIN survivors :
                r.info[k] =
                   IF nd = 0 THEN survivors[k]
                   ELSE distort_information(Distorters[nd],
                            calls[DistorterCall(k, nd)].input[1])

\* C16: in process_information_for_agent every item that survives all
\* filters is passed through every registered distorter in registration
\* order, each distorter receiving the previous distorter's output for that
\* item; the result contains exactly one item per surviving item, in the
\* order the filters returned them, and all filters run before any distorter.
C16_DistortersInOrder ==
    [][Called("process_information_for_agent") =>
        \A agent_id \in AgentIds :
        \A fail_at \in FailPoints(information_transformer, GivenRaw) :
            MadeCall(agent_id, fail_at) =>
                C16_Pipeline(GivenRaw, Processed(agent_id, GivenRaw, fail_at))]_vars

\* C16 witness: two different items survived a filter and went through two
\* distorters whose order shows in the result
C16_Witness ==
    /\ last_call.op = "process_information_for_agent"
    /\ last_call.result = "Ok"
    /\ Len(Filters) > 0
    /\ Len(Distorters) = 2
    /\ Len(last_call.returned) = 2
    /\ last_call.returned[1].content # last_call.returned[2].content
    /\ \E k \in 1 .. 2 :
          last_call.returned[k] #
             distort_information(Distorters[1],
                 distort_information(Distorters[2], last_call.raw[k]))

\* C17: after a successful process_information_for_agent(agent_id, ...),
\* get_cached_information(agent_id) equals the list the call returned,
\* replacing any earlier entry for that agent, and the cached entries of all
\* other agents are unchanged.
C17_CacheHoldsResult ==
    [][Called("process_information_for_agent") =>
        \A agent_id \in RunAgentIds :
        \A fail_at \in FailPoints(information_transformer, GivenRaw) :
            (MadeCall(agent_id, fail_at) /\ last_call'.result = "Ok") =>
                /\ get_cached_information(information_transformer', agent_id)
                      = Some(last_call'.returned)
                /\ \A other \in RunAgentIds \ {agent_id} :
                      get_cached_information(information_transformer', other)
                         = get_cached_information(information_transformer, other)]_vars

\* C17 witness: a call for a1 returned a non-empty list, which is what the
\* cache holds for a1, next to a different entry for a2
C17_Witness ==
    /\ last_call.op = "process_information_for_agent"
    /\ last_call.result = "Ok"
    /\ last_call.agent_id = Some("a1")
    /\ last_call.returned # << >>
    /\ get_cached_information(information_transformer, "a1") = Some(last_call.returned)
    /\ get_cached_information(information_transformer, "a2") # None
    /\ get_cached_information(information_transformer, "a2") # Some(last_call.returned)

\* C18: if any filter or distorter returns an error during
\* process_information_for_agent, the call returns that error, no later
\* filter or distorter is invoked, and the Transformer cache is exactly as it
\* was before the call.
C18_ErrorAbortsCall ==
    [][Called("process_information_for_agent") =>
        \A agent_id \in RunAgentIds :
        \A fail_at \in FailPoints(information_transformer, GivenRaw) :
            LET calls == Processed(agent_id, GivenRaw, fail_at).calls IN
            (/\ MadeCall(agent_id, fail_at)
             /\ \E p \in DOMAIN calls : calls[p].result = "Err") =>
                /\ last_call'.result = "Err"
                /\ \A p \in DOMAIN calls : calls[p].result = "Err" => p = Len(calls)
                /\ \A a \in RunAgentIds :
                      get_cached_information(information_transformer', a)
                         = get_cached_information(information_transformer, a)
                /\ information_transformer' = information_transformer]_vars

\* C18 witness: a distorter failed on an item that had survived the filter,
\* in a call for a1; the entry an earlier call cached for a1 is still there,
\* and a2 has none
C18_Witness ==
    /\ last_call.op = "process_information_for_agent"
    /\ last_call.result = "Err"
    /\ last_call.agent_id = Some("a1")
    /\ last_call.failed = Some("distorter")
    /\ get_cached_information(information_transformer, "a1") \notin {None, Some(<< >>)}
    /\ get_cached_information(information_transformer, "a2") = None

\* C19: clear_expired_cache(current_time) removes every cached entry for
\* every agent when current_time is strictly greater than the Transformer's
\* expiry threshold, and leaves the cache completely unchanged when
\* current_time is less than or equal to the threshold.
C19_ClearExpiredCache ==
    [][Called("clear_expired_cache") => \A time \in ClearTimes :
        ClearCall(time) =>
            IF time > information_transformer.cache_expiry_time
            THEN \A a \in RunAgentIds :
                    get_cached_information(information_transformer', a) = None
            ELSE /\ \A a \in RunAgentIds :
                       get_cached_information(information_transformer', a)
                          = get_cached_information(information_transformer, a)
                 /\ information_transformer' = information_transformer]_vars

\* C19 witness: clear_expired_cache called at exactly the threshold with
\* both agents cached: the entries are still there
C19_Witness ==
    /\ last_call.op = "clear_expired_cache"
    /\ last_call.time = Some(information_transformer.cache_expiry_time)
    /\ \A a \in RunAgentIds :
          get_cached_information(information_transformer, a) \notin {None, Some(<< >>)}

\* the registered processes that are active at a time, in registration order
ActiveProcesses(time) ==
    SelectSeq(environment.exogenous_processes, LAMBDA process : is_active(process, time))

RECURSIVE ConcatChanges(_, _)
ConcatChanges(processes, time) ==
    IF processes = << >> THEN << >>
    ELSE update_environment(Head(processes), time) \o ConcatChanges(Tail(processes), time)

C20_Update(new_time, r) ==
    LET assets == DOMAIN environment.physical_assets
        na == Cardinality(assets)
        processes == environment.exogenous_processes
        active == ActiveProcesses(new_time)
        calls == r.calls
    IN
    /\ r.ok =>
          /\ Len(calls) = na + Len(active) + 1
          \* first update_state(new_time) on every physical asset
          /\ \A i \in 1 .. na : calls[i].kind = "update_state"
          /\ {calls[i].target : i \in 1 .. na} = assets
          /\ \A a \in assets : environment'.physical_assets[a] = new_time
          \* then exactly the active processes, in registration order
          /\ \A i \in DOMAIN active :
                /\ calls[na + i].kind = "update_environment"
                /\ calls[na + i].target = active[i].name
          /\ \A i \in DOMAIN processes :
                ~ is_active(processes[i], new_time) =>
                    \A c \in DOMAIN calls : calls[c].target # processes[i].name
          /\ r.changes = ConcatChanges(active, new_time)
          \* and only then the environment's current_time
          /\ calls[Len(calls)].kind = "set_current_time"
          /\ environment'.current_time = new_time
    /\ ~ r.ok => environment'.current_time = environment.current_time

\* C20: a successful Environment::update_to_time(new_time) first calls
\* update_state(new_time) on every physical asset, then invokes exactly the
\* exogenous processes whose is_active(new_time) holds, in registration
\* order, returning their changes concatenated in that order, and only then
\* sets the environment's current_time to new_time; inactive processes are
\* never invoked.
C20_UpdateToTime ==
    [][Called("update_to_time") => \A new_time \in {last_call'.time[1]} :
        \A failing \in {NoFailure} \cup EnvFailPoints(environment, new_time),
           order \in VisitOrders(DOMAIN environment.physical_assets) :
            (/\ (failing = NoFailure) = (last_call'.result = "Ok")
             /\ UpdateCall(new_time, failing, order)) =>
                C20_Update(new_time,
                    update_to_time_traced(environment, new_time, failing, order))]_vars

\* C20 witness: a successful update of an environment with two assets and
\* two processes, of which the first registered is inactive and the second
\* active and invoked
C20_Witness ==
    /\ last_call.op = "update_to_time"
    /\ last_call.result = "Ok"
    /\ Cardinality(DOMAIN environment.physical_assets) = 2
    /\ Len(environment.exogenous_processes) = 2
    /\ ~ is_active(environment.exogenous_processes[1], environment.current_time)
    /\ is_active(environment.exogenous_processes[2], environment.current_time)
    /\ Len(last_call.changes) = 1
    /\ last_call.time = Some(environment.current_time)
    /\ \A a \in DOMAIN environment.physical_assets :
          environment.physical_assets[a] = environment.current_time

C21_Update(new_time, r) ==
    LET calls == r.calls
        succeeded == {calls[c].target : c \in {d \in DOMAIN calls :
                          calls[d].kind = "update_state" /\ calls[d].result = "Ok"}}
        invoked == {calls[c].target : c \in {d \in DOMAIN calls :
                          calls[d].kind = "update_state"}}
    IN
    \* the error is returned at once: the failed invocation is the last one
    /\ last_call'.result = "Err"
    /\ r.changes = << >>
    /\ calls # << >>
    /\ \A c \in DOMAIN calls : (calls[c].result = "Err") = (c = Len(calls))
    /\ \A c \in DOMAIN calls : calls[c].kind # "set_current_time"
    \* current_time keeps its value
    /\ environment'.current_time = environment.current_time
    \* the assets updated before the failure stay updated, those not reached
    \* keep their state
    /\ \A a \in succeeded : environment'.physical_assets[a] = new_time
    /\ \A a \in DOMAIN environment.physical_assets \ invoked :
          environment'.physical_assets[a] = environment.physical_assets[a]
    /\ environment'.exogenous_processes = environment.exogenous_processes

\* C21: if an asset update_state or an exogenous process fails during
\* update_to_time, the error is returned immediately, no remaining asset or
\* process is invoked, the environment's current_time keeps its previous
\* value, and asset mutations already applied in that call are not undone.
C21_FailedUpdate ==
    [][(Called("update_to_time") /\ last_call'.result = "Err") =>
        \A new_time \in {last_call'.time[1]} :
        \A failing \in EnvFailPoints(environment, new_time),
           order \in VisitOrders(DOMAIN environment.physical_assets) :
            UpdateCall(new_time, failing, order) =>
                C21_Update(new_time,
                    update_to_time_traced(environment, new_time, failing, order))]_vars

\* C21 witness: the second asset visited failed: the first one is at the new
\* time, the other and the environment's current_time are not
C21_Witness ==
    /\ last_call.op = "update_to_time"
    /\ last_call.result = "Err"
    /\ Len(last_call.calls) = 2
    /\ last_call.calls[2].kind = "update_state"
    /\ environment.physical_assets[last_call.calls[1].target] = last_call.time[1]
    /\ environment.physical_assets[last_call.calls[2].target] # last_call.time[1]
    /\ environment.current_time # last_call.time[1]
    /\ Len(environment.exogenous_processes) > 0

Count(assets) == Cardinality(DOMAIN assets)

\* C22: adding a physical or a knowledge asset under an ID already present
\* in its map returns an error, leaves the number of assets unchanged and
\* keeps the asset stored first; a new ID is stored and raises the count by 1.
C22_DuplicateAsset ==
    [][/\ Called("add_physical_asset") =>
            \A asset_id \in EnvAssetIds : AddPhysicalAssetCall(asset_id) =>
                IF asset_id \in DOMAIN environment.physical_assets
                THEN /\ last_call'.result = "Err"
                     /\ Count(environment'.physical_assets)
                            = Count(environment.physical_assets)
                     /\ environment'.physical_assets[asset_id]
                            = environment.physical_assets[asset_id]
                     /\ environment' = environment
                ELSE /\ last_call'.result = "Ok"
                     /\ Count(environment'.physical_assets)
                            = Count(environment.physical_assets) + 1
       /\ Called("add_knowledge_asset") =>
            \A asset \in KnowledgeInputs : AddKnowledgeAssetCall(asset) =>
                IF asset.asset_id \in DOMAIN environment.knowledge_assets
                THEN /\ last_call'.result = "Err"
                     /\ Count(environment'.knowledge_assets)
                            = Count(environment.knowledge_assets)
                     /\ environment'.knowledge_assets[asset.asset_id]
                            = environment.knowledge_assets[asset.asset_id]
                     /\ environment' = environment
                ELSE /\ last_call'.result = "Ok"
                     /\ Count(environment'.knowledge_assets)
                            = Count(environment.knowledge_assets) + 1
                     /\ environment'.knowledge_assets[asset.asset_id] = asset.content
      ]_vars

\* C22 witness: a second physical asset was refused under the ID of the only
\* one stored, which update_to_time had already aged
C22_Witness ==
    /\ last_call.op = "add_physical_asset"
    /\ last_call.result = "Err"
    /\ Count(environment.physical_assets) = 1
    /\ \E a \in DOMAIN environment.physical_assets : environment.physical_assets[a] > 0
    /\ Count(environment.knowledge_assets) > 0

History(id) == agents[id].choice_history

\* C23: when process_trigger returns Some(choice), choice_history grows by
\* exactly one record and last_choice_time is the current_time passed; when
\* it returns None or an error (should_make_choice false, make_choice None,
\* make_choice or evaluate_choice failing) both are unchanged.
C23_ProcessTrigger ==
    [][Called("process_trigger") =>
        \A id \in DOMAIN agents, time \in {last_call'.time[1]} :
        \A trigger \in Triggers, outcome \in ChoiceOutcomes(Choices) :
            ProcessTriggerCall(id, trigger, outcome, time) =>
                /\ (last_call'.returned # None) = (outcome.kind = "chosen")
                /\ (last_call'.result = "Err") =
                      (outcome.kind \in {"make_choice_failed", "evaluate_choice_failed"})
                /\ IF last_call'.returned # None
                   THEN /\ last_call'.result = "Ok"
                        /\ Len(History(id)') = Len(History(id)) + 1
                        /\ SubSeq(History(id)', 1, Len(History(id))) = History(id)
                        /\ agents'[id].last_choice_time = Some(time)
                   ELSE /\ History(id)' = History(id)
                        /\ agents'[id].last_choice_time = agents[id].last_choice_time]_vars

\* C23 witness: a call that made no choice came back Ok(None) at a time other
\* than that of the one recorded choice
C23_Witness ==
    /\ last_call.op = "process_trigger"
    /\ last_call.outcome = "no_choice"
    /\ \E id \in DOMAIN agents :
          /\ Len(History(id)) = 1
          /\ agents[id].last_choice_time # None
          /\ agents[id].last_choice_time # last_call.time

\* C23 witness, second case: a choice was recorded after an earlier one
C23_Recorded ==
    /\ last_call.op = "process_trigger"
    /\ last_call.returned # None
    /\ \E id \in DOMAIN agents : Len(History(id)) = 2

\* C24: after any sequence of process_trigger and clear_history calls the
\* times of the records of choice_history are non-decreasing in list order.
C24_HistoryMonotone ==
    \A id \in DOMAIN agents :
        \A i, j \in DOMAIN History(id) :
            i <= j => History(id)[i].time <= History(id)[j].time

\* C24, second half: no operation other than process_trigger appends a record
C24_OnlyProcessTriggerAppends ==
    [][\A id \in DOMAIN agents :
          Len(History(id)') > Len(History(id)) => Called("process_trigger")]_vars

\* the last n elements of a sequence
LastN(seq, n) == SubSeq(seq, Len(seq) - n + 1, Len(seq))

Min(a, b) == IF a <= b THEN a ELSE b

\* C25: after any sequence of emit calls the stored log never holds more than
\* max_events events, and it holds the most recently emitted events in
\* emission order: each emit past the capacity evicts exactly the oldest.
C25_BoundedLog ==
    /\ Len(event_bus.events) <= event_bus.max_events
    /\ event_bus.events =
          LastN(last_call.emitted, Min(Len(last_call.emitted), event_bus.max_events))

\* C25 witness: more events were emitted than the log holds, and the two
\* kept are different events
C25_Witness ==
    /\ last_call.op = "emit"
    /\ Len(last_call.emitted) > event_bus.max_events + 1
    /\ Len(event_bus.events) = 2
    /\ event_bus.events[1] # event_bus.events[2]
    /\ event_bus.events[1] # last_call.emitted[1]

\* the event a successful call of op emits, for the operations without an
\* agent argument
LifecycleEvent(op, t) ==
    ModelEvent(CASE op = "start" -> "SimulationStarted"
                 [] op = "pause" -> "SimulationPaused"
                 [] op = "resume" -> "SimulationResumed"
                 [] OTHER -> "SimulationCompleted", t, None)

\* a stop() that changed the state, called directly or by step()
StopActed == state # "Completed" /\ state' = "Completed"

Succeeded(op) == Called(op) /\ last_call'.result = "Ok"

\* C26: with event logging enabled every successful add_agent, remove_agent,
\* start, pause, resume and state-changing stop emits exactly one event of
\* the matching type timestamped with the model's current_time, and every
\* failed call emits none; with event logging disabled no operation ever
\* adds an event to the log.
C26_OneEventPerOperation ==
    [][IF ~ Logging
       THEN Events' = << >> /\ Events = << >>
       ELSE /\ Succeeded("add_agent") =>
                \E agent_id \in DOMAIN agents' \ DOMAIN agents :
                    Events' = Append(Events,
                        ModelEvent("AgentAdded", current_time', Some(agent_id)))
            /\ Succeeded("remove_agent") =>
                \E agent_id \in DOMAIN agents \ DOMAIN agents' :
                    Events' = Append(Events,
                        ModelEvent("AgentRemoved", current_time', Some(agent_id)))
            /\ \A op \in {"start", "pause", "resume"} :
                  Succeeded(op) =>
                      Events' = Append(Events, LifecycleEvent(op, current_time'))
            /\ StopActed =>
                  Events' = Append(Events, LifecycleEvent("stop", current_time'))
            /\ (Called("stop") /\ ~ StopActed) => Events' = Events
            /\ \A op \in {"add_agent", "remove_agent", "start", "pause", "resume"} :
                  (Called(op) /\ last_call'.result = "Err") => Events' = Events]_vars

\* C26 witness: a pause at a time after 0 appended its event to a log that
\* already held others
C26_Witness ==
    /\ Logging
    /\ last_call.op = "pause"
    /\ last_call.result = "Ok"
    /\ current_time > 0
    /\ Len(Events) > 2
    /\ Events[Len(Events)] = ModelEvent("SimulationPaused", current_time, None)

\* a step() that executed its tick
Ticked == Succeeded("step") /\ state = "Running" /\ state' = "Running"

\* C27: immediately after every step() that executes a tick and after every
\* state-changing stop(), total_agents is the number of agents,
\* total_choices_made the sum of the agents' choice_history lengths,
\* average_choices_per_agent their quotient (0 when there is no agent) and
\* simulation_duration the current_time.
C27_StatisticsRecomputed ==
    [][(Ticked \/ StopActed) =>
        LET n == Cardinality(DOMAIN agents') IN
        /\ statistics'.total_agents = n
        /\ statistics'.total_choices_made = TotalChoices(agents')
        /\ statistics'.simulation_duration = current_time'
        /\ statistics'.average_choices_per_agent =
              IF n > 0 THEN Quotient(TotalChoices(agents'), n) ELSE ZeroQuotient]_vars

\* C27, the fields that are always recomputed
C27_CountsRecomputed ==
    [][(Ticked \/ StopActed) =>
        /\ statistics'.total_agents = Cardinality(DOMAIN agents')
        /\ statistics'.total_choices_made = TotalChoices(agents')
        /\ statistics'.simulation_duration = current_time'
        /\ DOMAIN agents' # {} =>
              statistics'.average_choices_per_agent =
                  Quotient(TotalChoices(agents'), Cardinality(DOMAIN agents'))]_vars

\* C27: the state the counterexample ends in: no agent and no choice, and an
\* average of one choice per agent
C27_StaleAverage ==
    /\ last_call.op = "step"
    /\ last_call.result = "Ok"
    /\ state = "Running"
    /\ statistics.total_agents = 0
    /\ statistics.total_choices_made = 0
    /\ statistics.average_choices_per_agent = Quotient(1, 1)

\* C28: after every step() that executes a tick, statistics.events_processed
\* is the number of events the model has emitted since the last reset (the
\* length of the log, which reset clears and which is far from its capacity).
C28_CountersRecomputed ==
    [][Ticked => statistics'.events_processed = Len(Events')]_vars

\* C28: what the code does instead: neither counter ever leaves 0
C28_CountersStayZero ==
    /\ statistics.events_processed = 0
    /\ statistics.validation_errors = 0

\* C28: a tick executed after two events were emitted and logged
C28_TickAfterEvents ==
    /\ last_call.op = "step"
    /\ last_call.result = "Ok"
    /\ state = "Running"
    /\ Len(Events) >= 2
    /\ statistics.events_processed = 0

Validated == last_call.op = "validate_agent_attributes"

\* C29: validate_agent_attributes fails when any psychological value is
\* outside [0,1], any socioeconomic value is negative or any required
\* attribute name is absent, and passes otherwise; the boundary values 0.0
\* and 1.0 of a psychological attribute pass.
C29_Validation ==
    Validated =>
        LET rules == last_call.rules
            psychological == last_call.attributes[1].psychological
            socioeconomic == last_call.attributes[1].socioeconomic
            out_of_range == \E n \in DOMAIN psychological :
                                ~ (0 <= psychological[n] /\ psychological[n] <= 100)
            negative == \E n \in DOMAIN socioeconomic : socioeconomic[n] < 0
            missing ==
                \/ ~ (rules.required_psychological_attributes \subseteq DOMAIN psychological)
                \/ ~ (rules.required_socioeconomic_attributes \subseteq DOMAIN socioeconomic)
        IN  /\ (last_call.result # "Ok") = (out_of_range \/ negative \/ missing)
            /\ (/\ ~ negative
                /\ ~ missing
                /\ \A n \in DOMAIN psychological : psychological[n] \in {0, 100})
                    => last_call.result = "Ok"

\* C29 witness: attributes holding both boundary values 0.0 and 1.0 and a
\* socioeconomic value of 0 passed rules that require two of them
C29_Witness ==
    /\ Validated
    /\ last_call.result = "Ok"
    /\ last_call.rules.required_psychological_attributes # {}
    /\ last_call.rules.required_socioeconomic_attributes # {}
    /\ DOMAIN last_call.attributes[1].psychological = PsychologicalNames
    /\ last_call.attributes[1].psychological["risk_aversion"] = 0
    /\ last_call.attributes[1].psychological["openness"] = 100
    /\ last_call.attributes[1].socioeconomic["income"] = 0

\* C29 witness, the failing side: a psychological value of 1.5 was rejected
C29_Rejected ==
    /\ Validated
    /\ last_call.result = "PsychologicalRange"
    /\ \E n \in DOMAIN last_call.attributes[1].psychological :
          last_call.attributes[1].psychological[n] = 150

\* a step() that reached its tick: it called update_to_time
TickAttempted == Called("step") /\ last_call'.env_called

\* the changes update_to_time returns at new_time, and the batch the claim
\* describes: one item per change, in their order
ChangesAt(new_time) ==
    ChangesUpTo(environment.exogenous_processes,
                Len(environment.exogenous_processes), new_time)

IsBatchOf(batch, changes, new_time) ==
    /\ Len(batch) = Len(changes)
    /\ \A i \in DOMAIN batch :
          /\ batch[i].content = changes[i].description
          /\ batch[i].timestamp = new_time
          /\ batch[i].reliability = 100
          /\ batch[i].topic = changes[i].change_type

\* the Transformer holds, for agent a, the result of processing the batch
ProcessedFor(a, batch) ==
    get_cached_information(information_transformer', a) =
        Some(process_information_for_agent(information_transformer, a, batch, FALSE).info)

\* C30: a step() that executes a tick advances the Environment to new_time,
\* then builds one Information item per returned change (in the order of the
\* changes, timestamp new_time, reliability 1.0, topic = change type), then
\* runs the Transformer once for every agent with that full batch, and only
\* after all agents are processed sets current_time to new_time and
\* recomputes the statistics: a tick that fails in the Environment has run
\* the Transformer for no agent, one that fails in the Transformer has
\* advanced the Environment, and neither has set the time or the statistics.
C30_TickOrder ==
    [][TickAttempted =>
        LET new_time == current_time + configuration.time_step
            batch == GenerateInformation(ChangesAt(new_time), new_time)
            processed == last_call'.processed
        IN  /\ IsBatchOf(batch, ChangesAt(new_time), new_time)
            /\ IF last_call'.result = "Ok"
               THEN /\ environment'.current_time = new_time
                    /\ processed = DOMAIN agents
                    /\ \A a \in DOMAIN agents : ProcessedFor(a, batch)
                    /\ current_time' = new_time
                    /\ statistics' = update_statistics(statistics, agents, new_time)
               ELSE /\ current_time' = current_time
                    /\ statistics' = statistics
                    /\ IF processed = {}
                       THEN /\ environment'.current_time = environment.current_time
                            /\ information_transformer' = information_transformer
                       ELSE /\ environment'.current_time = new_time
                            /\ \E failed \in processed :
                                  \A a \in processed \ {failed} : ProcessedFor(a, batch)]_vars

\* C30 witness: a tick with two agents and a batch of two items was executed
C30_Witness ==
    /\ last_call.op = "step"
    /\ last_call.result = "Ok"
    /\ last_call.processed = RunAgentIds
    /\ current_time > 0
    /\ environment.current_time = current_time
    /\ \A a \in RunAgentIds :
          /\ a \in DOMAIN information_transformer.information_cache
          /\ Len(information_transformer.information_cache[a]) = 2
          /\ information_transformer.information_cache[a][1].topic = "market"
          /\ information_transformer.information_cache[a][2].topic = "policy"
          /\ information_transformer.information_cache[a][1].timestamp = current_time
    /\ statistics.simulation_duration = current_time

\* C30 witness, the aborted side: the Transformer failed for the second
\* agent after the Environment had been advanced
C30_AbortedInTransformer ==
    /\ last_call.op = "step"
    /\ last_call.result = "Err"
    /\ last_call.processed = RunAgentIds
    /\ environment.current_time > current_time

\* what pause() and resume() must leave alone
OutsidePauseResume ==
    <<configuration, current_time, agents, environment, information_transformer,
      statistics>>

\* C31: neither pause() nor resume() changes anything other than the state
\* and the event log, and a resume() that follows a pause() returns the model
\* to Running with current_time, the agent map, the statistics and the
\* environment's time unchanged.
C31_PauseResume ==
    [][/\ (Called("pause") \/ Called("resume")) => UNCHANGED OutsidePauseResume
       /\ Succeeded("pause") => state = "Running" /\ state' = "Paused"
       /\ Succeeded("resume") => state = "Paused" /\ state' = "Running"
       /\ (Called("resume") /\ last_call.op = "pause" /\ last_call.result = "Ok") =>
              /\ last_call'.result = "Ok"
              /\ state' = "Running"
              /\ environment'.current_time = environment.current_time]_vars

\* C31 witness: resume() has just followed pause() in a model with an agent
\* and a tick behind it, whose statistics a recomputation would change
C31_Witness ==
    /\ last_call.op = "resume"
    /\ last_call.result = "Ok"
    /\ state = "Running"
    /\ current_time > 0
    /\ DOMAIN agents # {}
    /\ Logging
    /\ Len(Events) >= 2
    /\ Events[Len(Events) - 1].event_type = "SimulationPaused"
    /\ Events[Len(Events)].event_type = "SimulationResumed"

\* C32: in every reachable state in which the model is Running, the agent
\* map is non-empty.
C32_RunningHasAgents == state = "Running" => DOMAIN agents # {}

\* C32: the state the counterexample ends in: resume() has put a model
\* without agents back in Running
C32_ResumedEmpty ==
    /\ last_call.op = "resume"
    /\ last_call.result = "Ok"
    /\ state = "Running"
    /\ DOMAIN agents = {}

\* C33: in every reachable state in which the model is Initialized,
\* current_time is 0 (so start(), legal only there, discards no time).
C33_InitializedAtZero == state = "Initialized" => current_time = 0

\* C33 witness: reset() has returned a model to Initialized whose
\* Environment shows that ticks were executed
C33_Witness ==
    /\ last_call.op = "reset"
    /\ last_call.result = "Ok"
    /\ state = "Initialized"
    /\ environment.current_time > 0
    /\ current_time = 0

ValidClock == configuration.time_step > 0 /\ configuration.max_simulation_time >= 0

\* C34 as stated: for time_step > 0 and max_simulation_time >= 0, every
\* reachable state has 0 <= current_time <= max_simulation_time and
\* current_time an integer multiple of time_step.
C34_TimeOnGrid ==
    ValidClock =>
        /\ 0 <= current_time
        /\ current_time <= configuration.max_simulation_time
        /\ current_time % configuration.time_step = 0

\* time_step added n times to 0 in SimulationTime
RECURSIVE FloatSum(_, _)
FloatSum(dt, n) == IF n = 0 THEN 0 ELSE FloatAdd(FloatSum(dt, n - 1), dt)

\* the first n sums of dt need no rounding
ExactSums(dt, n) == \A k \in 1 .. n : RoundToFloat(k * dt) = k * dt

\* C34: for time_step > 0 and max_simulation_time >= 0, every reachable
\* state has 0 <= current_time <= max_simulation_time, and current_time is
\* time_step added once per tick executed since start(): an integer multiple
\* of time_step as long as those sums are exact.
C34_TimeInRange ==
    ValidClock =>
        /\ 0 <= current_time
        /\ current_time <= configuration.max_simulation_time
        /\ current_time = FloatSum(configuration.time_step, ticks)
        /\ ExactSums(configuration.time_step, ticks) =>
              current_time = ticks * configuration.time_step

\* C34 witness: the last tick that fits was executed and its sum was rounded
C34_Witness ==
    /\ ValidClock
    /\ last_call.op = "step"
    /\ last_call.result = "Ok"
    /\ state = "Running"
    /\ ticks > 2
    /\ ~ ExactSums(configuration.time_step, ticks)
    /\ FloatAdd(current_time, configuration.time_step)
          > configuration.max_simulation_time

EnvironmentInStep == environment.current_time = current_time

\* a step() that returned an error
StepFailed == Called("step") /\ last_call'.result = "Err"

\* C35: for a model built from a fresh Environment, the Environment's
\* current_time equals the model's current_time in every reachable state in
\* which no step() has returned an error: the two are equal initially, and
\* every call other than a failing step(), reset() included, keeps them equal.
C35_EnvironmentFollowsModel ==
    [][(EnvironmentInStep /\ ~ StepFailed) => EnvironmentInStep']_vars

\* the positions of the events of a type in a log
Positions(log, type) == {i \in DOMAIN log : log[i].event_type = type}

AtMostOneRun(log) ==
    /\ Cardinality(Positions(log, "SimulationStarted")) <= 1
    /\ Cardinality(Positions(log, "SimulationCompleted")) <= 1

\* C36 as stated: in the event log, which reset() clears, every
\* SimulationCompleted event is preceded by a SimulationStarted event, and
\* there is at most one event of either type.
C36_CompletedAfterStarted ==
    Logging =>
        /\ \A i \in Positions(Events, "SimulationCompleted") :
              \E j \in Positions(Events, "SimulationStarted") : j < i
        /\ AtMostOneRun(Events)

\* C36: between two resets at most one SimulationStarted and at most one
\* SimulationCompleted event are emitted, and the SimulationCompleted event
\* is preceded by a SimulationStarted event exactly when the stop() that
\* emitted it found the model started (Running or Paused): a stop() in
\* Initialized completes a simulation that never started.
C36_CompletedOncePerRun ==
    [][Logging =>
        /\ AtMostOneRun(Events')
        /\ StopActed =>
              /\ Positions(Events', "SimulationCompleted") = {Len(Events')}
              /\ (state # "Initialized") = (Positions(Events, "SimulationStarted") # {})]_vars

\* C36 witness: a started simulation was completed, after a pause, with all
\* its events in the log
C36_Witness ==
    /\ Logging
    /\ state = "Completed"
    /\ Len(Events) = 4
    /\ Events[1].event_type = "AgentAdded"
    /\ Events[2].event_type = "SimulationStarted"
    /\ Events[3].event_type = "SimulationPaused"
    /\ Events[4].event_type = "SimulationCompleted"

Started == state = "Running" \/ state = "Paused"

\* C37 as stated: step() never changes the agent map, and consequently
\* statistics.total_choices_made is constant from a start() to the next
\* reset().
C37_TotalChoicesConstant ==
    [][/\ Called("step") => agents' = agents
       /\ (Started /\ ~ Called("reset")) =>
              statistics'.total_choices_made = statistics.total_choices_made]_vars

\* C37: step() never changes the set of agents nor any agent's
\* choice_history or last_choice_time, whether it succeeds, stops the
\* simulation or fails, so no step() changes the sum of the history lengths;
\* statistics.total_choices_made changes in a started model only when a tick
\* or a state-changing stop() sets it to that sum.
C37_StepKeepsAgents ==
    [][/\ Called("step") =>
            /\ DOMAIN agents' = DOMAIN agents
            /\ \A a \in DOMAIN agents :
                  /\ agents'[a].choice_history = agents[a].choice_history
                  /\ agents'[a].last_choice_time = agents[a].last_choice_time
            /\ TotalChoices(agents') = TotalChoices(agents)
       /\ (/\ Started
           /\ ~ Called("reset")
           /\ statistics'.total_choices_made # statistics.total_choices_made) =>
            /\ Ticked \/ StopActed
            /\ statistics'.total_choices_made = TotalChoices(agents')]_vars

\* C37 witness: the first tick after start() has counted the choice its
\* agent had recorded before it was added
C37_Witness ==
    /\ last_call.op = "step"
    /\ last_call.result = "Ok"
    /\ state = "Running"
    /\ ticks = 1
    /\ statistics.total_choices_made = 1
    /\ \E a \in DOMAIN agents :
          /\ Len(agents[a].choice_history) = 1
          /\ agents[a].last_choice_time # None

\* C38: in every reachable model state the Transformer's information cache
\* holds entries only for agent IDs that are in the model's agent map.
C38_CacheFollowsAgents ==
    \A id \in DOMAIN information_transformer.information_cache : id \in DOMAIN agents

\* C38: the state after reset() of a model that executed a tick: a new run
\* starts with the cache of the previous one
C38_CacheSurvivesReset ==
    /\ last_call.op = "reset"
    /\ last_call.result = "Ok"
    /\ DOMAIN information_transformer.information_cache # {}

\* the Transformer cache step() leaves when the agents of `visited` are
\* iterated before the one whose processing fails (all of them when none
\* fails)
CacheAfter(visited, batch) == ProcessAgents(information_transformer, visited, batch)

SameCache(tr1, tr2) ==
    \A a \in RunAgentIds : get_cached_information(tr1, a) = get_cached_information(tr2, a)

\* C39: the post-state of step() does not depend on the order in which the
\* agent map is iterated, both when every agent's processing succeeds and
\* when the processing of some agent fails: whichever agents the iteration
\* visits before the failing one, the Transformer cache (as the time, state,
\* statistics and environment) comes out the same.
C39_OrderIndependent ==
    [][TickAttempted =>
        LET new_time == current_time + configuration.time_step
            batch == GenerateInformation(ChangesAt(new_time), new_time)
            processed == last_call'.processed
        IN  IF last_call'.result = "Ok"
            THEN SameCache(information_transformer', CacheAfter(DOMAIN agents, batch))
            ELSE processed # {} =>
                   \E failed \in processed :
                      \A visited \in SUBSET (DOMAIN agents \ {failed}) :
                          SameCache(information_transformer', CacheAfter(visited, batch))]_vars

\* C39, the part that holds: a tick in which every agent's processing
\* succeeds leaves the same cache under every iteration order
C39_OrderIndependentOnSuccess ==
    [][(TickAttempted /\ last_call'.result = "Ok") =>
        LET new_time == current_time + configuration.time_step
            batch == GenerateInformation(ChangesAt(new_time), new_time)
        IN  SameCache(information_transformer', CacheAfter(DOMAIN agents, batch))]_vars

\* the position of an event in the log (the events of the threads differ)
PositionInLog(event) == CHOOSE k \in DOMAIN Events : Events[k] = event

Handled(h) == last_call.handled[h]

InLog(event) == \E k \in DOMAIN Events : Events[k] = event

\* C40: when several threads call emit concurrently, every registered
\* handler is notified of the events in the order in which they are stored
\* in the event log, and of an event only after it has been appended.
C40_HandlersFollowLog ==
    \A h \in HandlerIds :
        /\ \A i \in DOMAIN Handled(h) : InLog(Handled(h)[i])
        /\ \A i, j \in DOMAIN Handled(h) :
              i < j => PositionInLog(Handled(h)[i]) < PositionInLog(Handled(h)[j])

\* C40, the part that holds: a handler is notified of an event only after
\* the event has been appended to the log, and two handlers registered
\* before the events are notified of them in the same order
C40_NotifiedAfterAppended ==
    /\ \A h \in HandlerIds : \A i \in DOMAIN Handled(h) : InLog(Handled(h)[i])
    /\ \A g, h \in HandlerIds :
          \A i, j \in DOMAIN Handled(g), k, l \in DOMAIN Handled(h) :
              (Handled(g)[i] = Handled(h)[k] /\ Handled(g)[j] = Handled(h)[l]) =>
                  ((i < j) = (k < l))

====
